---- MODULE Spec2Model ----
(***************************************************************************)
(* Model of card_tracker.py (zeki70/war_record): a Streamlit script that   *)
(* appends match records to a Google Sheets worksheet (save_data), reloads *)
(* the worksheet on every run (load_data) and computes win-rate statistics *)
(* per deck archetype (show_analysis_section,                              *)
(* display_general_deck_performance).                                      *)
(*                                                                         *)
(* Text is modelled as a sequence of Unicode code points, so that          *)
(* str.lower(), str.strip(), == and sorted() are computed and not assumed. *)
(* Floating point values (win rates, means) are modelled as exact          *)
(* rationals in lowest terms; None / NaN is a separate value.              *)
(***************************************************************************)
EXTENDS Integers, Sequences, FiniteSets, TLC

(***************************************************************************)
(* Program constants (src/card_tracker.py:17-21) and the literals the      *)
(* aggregation code compares against.                                      *)
(***************************************************************************)
COLUMNS ==
    << "season", "date", "environment", "my_deck", "my_deck_type", "opponent_deck",
       "opponent_deck_type", "first_second", "result", "finish_turn", "memo" >>

\* "（新しい値を入力）"
NEW_ENTRY_LABEL == << 65288, 26032, 12375, 12356, 20516, 12434, 20837, 21147, 65289 >>

\* "--- 選択してください ---"
SELECT_PLACEHOLDER ==
    << 45, 45, 45, 32, 36984, 25246, 12375, 12390, 12367, 12384, 12373, 12356, 32, 45, 45, 45 >>

\* "全タイプ"
ALL_TYPES_PLACEHOLDER == << 20840, 12479, 12452, 12503 >>

\* '勝ち'
WIN == << 21213, 12385 >>

\* '負け'
LOSS == << 36000, 12369 >>

\* '先攻'
FIRST == << 20808, 25915 >>

\* '後攻'
SECOND == << 24460, 25915 >>

\* the text 'nan': what Series.astype(str) makes of a missing cell
NAN_TEXT == << 110, 97, 110 >>

\* the empty text ''
EMPTY_TEXT == << >>

(***************************************************************************)
(* Text values used as inputs of the model.                                *)
(***************************************************************************)
sX == << 88 >>
sY == << 89 >>
sZ == << 90 >>
sBlank == << 32 >>
sNaNUpper == << 78, 97, 78 >>
sNaNCaps == << 78, 65, 78 >>
sPaddedY == << 32, 89, 32 >>
sBadText == << 98, 97, 100 >>
sS1 == << 83, 49 >>
sS2 == << 83, 50 >>
sE1 == << 69, 49 >>
sE2 == << 69, 50 >>
sT1 == << 116, 49 >>
sT2 == << 116, 50 >>

(***************************************************************************)
(* Python str operations.                                                  *)
(***************************************************************************)
\* str.lower() on the ASCII range (the model's inputs have no other cased letters)
Lower(s) == [i \in DOMAIN s |-> IF s[i] \in 65..90 THEN s[i] + 32 ELSE s[i]]

IsSpace(c) == c \in {9, 10, 11, 12, 13, 32}

RECURSIVE LStrip(_)
LStrip(s) == IF s # << >> /\ IsSpace(Head(s)) THEN LStrip(Tail(s)) ELSE s

RECURSIVE RStrip(_)
RStrip(s) ==
    IF s # << >> /\ IsSpace(s[Len(s)]) THEN RStrip(SubSeq(s, 1, Len(s) - 1)) ELSE s

\* str.strip()
Strip(s) == RStrip(LStrip(s))

\* truth value of a str: non-empty
Truthy(s) == s # << >>

\* s + t
Concat(s, t) == s \o t

\* s < t for str: lexicographic by code point
RECURSIVE StrLess(_, _)
StrLess(s, t) ==
    IF t = << >> THEN FALSE
    ELSE IF s = << >> THEN TRUE
    ELSE IF Head(s) # Head(t) THEN Head(s) < Head(t)
    ELSE StrLess(Tail(s), Tail(t))

\* sorted(S) for a finite set S of str
RECURSIVE SortedStrings(_)
SortedStrings(S) ==
    IF S = {} THEN << >>
    ELSE LET m == CHOOSE x \in S : \A y \in S \ {x} : StrLess(x, y)
         IN  << m >> \o SortedStrings(S \ {m})

(***************************************************************************)
(* Numbers: a float is an exact rational num/den in lowest terms, den > 0; *)
(* None (and NaN, which the display treats alike) has some = FALSE.        *)
(***************************************************************************)
RECURSIVE GCD(_, _)
GCD(a, b) == IF b = 0 THEN a ELSE GCD(b, a % b)

Abs(n) == IF n < 0 THEN -n ELSE n

Rat(n, d) ==
    LET g == GCD(Abs(n), d)
    IN  [some |-> TRUE, num |-> n \div g, den |-> d \div g]

None == [some |-> FALSE, num |-> 0, den |-> 1]

\* the float 0.0
Zero == Rat(0, 1)

\* wins / games * 100
Percent(wins, games) == Rat(100 * wins, games)

RatAdd(a, b) == Rat(a.num * b.den + b.num * a.den, a.den * b.den)

RatLess(a, b) == a.num * b.den < b.num * a.den

RECURSIVE RatSum(_)
RatSum(xs) == IF xs = << >> THEN Zero ELSE RatAdd(Head(xs), RatSum(Tail(xs)))

\* pd.Series(xs).mean() for a non-empty list of floats
Mean(xs) == LET s == RatSum(xs) IN Rat(s.num, s.den * Len(xs))

RECURSIVE SeqOfSet(_)
SeqOfSet(S) ==
    IF S = {} THEN << >>
    ELSE LET x == CHOOSE y \in S : TRUE IN << x >> \o SeqOfSet(S \ {x})

Range(f) == {f[i] : i \in DOMAIN f}

\* len(df[df['result'] == result])
CountResult(df, result) == Len(SelectSeq(df, LAMBDA r : r.result = result))
(***************************************************************************)
(* A table (pandas DataFrame) is a sequence of rows.  A row is a record    *)
(* with the 11 columns of COLUMNS and `index`, the pandas index label the  *)
(* row got when it was loaded; boolean indexing keeps the label.           *)
(* date and finish_turn are << >> when missing (NaT / <NA>) and << v >>    *)
(* otherwise.                                                              *)
(***************************************************************************)
NA == << >>

IsNA(v) == v = << >>

\* df.empty
IsEmpty(df) == df = << >>

\* Series.astype(str).replace('', pd.NA).dropna().unique(), as a set
NonEmptyValues(df, col) == {df[i][col] : i \in DOMAIN df} \ {EMPTY_TEXT}

(***************************************************************************)
(* get_all_analyzable_deck_names                                           *)
(***************************************************************************)
\* faulty variant of line 250: only the lower-case text 'nan' is left out
IsDeckNameExactCase(d) == Truthy(d) /\ d # NAN_TEXT

IsDeckName(d) == Truthy(d) /\ Lower(d) # NAN_TEXT

get_all_analyzable_deck_names(df) ==
    LET my_decks == NonEmptyValues(df, "my_deck")
        opponent_decks == NonEmptyValues(df, "opponent_deck")
        all_decks_set == my_decks \cup opponent_decks
    IN  SortedStrings({d \in all_decks_set : IsDeckName(d)})

(***************************************************************************)
(* get_types_for_deck_and_season_input (lines 213-242): the options of the *)
(* type selectboxes of the input form.                                     *)
(***************************************************************************)
get_types_for_deck_and_season_input(df, selected_season, selected_deck_name) ==
    IF \/ ~Truthy(selected_deck_name) \/ selected_deck_name = NEW_ENTRY_LABEL
       \/ ~Truthy(selected_season) \/ selected_season = NEW_ENTRY_LABEL
    THEN << NEW_ENTRY_LABEL >>
    ELSE LET df_filtered == SelectSeq(df, LAMBDA r : r.season = selected_season)
             my_deck_matches ==
                 SelectSeq(df_filtered, LAMBDA r : r.my_deck = selected_deck_name)
             opponent_deck_matches ==
                 SelectSeq(df_filtered, LAMBDA r : r.opponent_deck = selected_deck_name)
             types ==
                 { t \in NonEmptyValues(my_deck_matches, "my_deck_type") :
                     Truthy(t) /\ Lower(t) # NAN_TEXT }
                   \cup { t \in NonEmptyValues(opponent_deck_matches, "opponent_deck_type") :
                            Truthy(t) /\ Lower(t) # NAN_TEXT }
         IN  IF df_filtered = << >> \/ types = {}
             THEN << NEW_ENTRY_LABEL >>
             ELSE << NEW_ENTRY_LABEL >> \o SortedStrings(types)

\* faulty variant of lines 258-260: the types the archetype had as opponent_deck left out
types_of_my_side_only(df, deck_name) ==
    << ALL_TYPES_PLACEHOLDER >>
        \o SortedStrings({ t \in NonEmptyValues(SelectSeq(df, LAMBDA r : r.my_deck = deck_name),
                                                 "my_deck_type") :
                             Truthy(t) /\ Lower(t) # NAN_TEXT })

(***************************************************************************)
(* get_all_types_for_archetype                                             *)
(***************************************************************************)
get_all_types_for_archetype(df, deck_name) ==
    IF ~Truthy(deck_name) \/ deck_name = SELECT_PLACEHOLDER
    THEN << ALL_TYPES_PLACEHOLDER >>
    ELSE LET my_deck_matches == SelectSeq(df, LAMBDA r : r.my_deck = deck_name)
             opponent_deck_matches == SelectSeq(df, LAMBDA r : r.opponent_deck = deck_name)
             types == NonEmptyValues(my_deck_matches, "my_deck_type")
                         \cup NonEmptyValues(opponent_deck_matches, "opponent_deck_type")
             valid_types == SortedStrings({t \in types : Truthy(t) /\ Lower(t) # NAN_TEXT})
         IN  << ALL_TYPES_PLACEHOLDER >> \o valid_types

(***************************************************************************)
(* display_general_deck_performance: the body of the loop over the         *)
(* archetypes (lines 276-319), for one archetype deck_a_name.              *)
(***************************************************************************)
\* lines 299-307: the opponents deck_a_name has faced
unique_opponents_faced_by_deck_a(df_to_analyze, deck_a_name) ==
    LET games_involving_deck_a ==
            SelectSeq(df_to_analyze,
                      LAMBDA r : r.my_deck = deck_a_name \/ r.opponent_deck = deck_a_name)
        opponent_for_this_game(row) ==
            IF row.my_deck = deck_a_name THEN row.opponent_deck ELSE row.my_deck
    IN  { opponent_for_this_game(games_involving_deck_a[i]) :
            i \in { j \in DOMAIN games_involving_deck_a :
                      LET o == opponent_for_this_game(games_involving_deck_a[j])
                      IN  /\ Truthy(o)
                          /\ o # deck_a_name
                          /\ Truthy(Strip(o))
                          /\ Lower(Strip(o)) # NAN_TEXT } }

\* lines 310-317: win rate of deck_a_name against one opponent archetype
matchup_win_rate_general(df_to_analyze, deck_a_name, opponent_archetype_name) ==
    LET a_vs_opp_my_games ==
            SelectSeq(df_to_analyze,
                      LAMBDA r : r.my_deck = deck_a_name
                                 /\ r.opponent_deck = opponent_archetype_name)
        a_vs_opp_my_wins == CountResult(a_vs_opp_my_games, WIN)
        a_vs_opp_opponent_games ==
            SelectSeq(df_to_analyze,
                      LAMBDA r : r.opponent_deck = deck_a_name
                                 /\ r.my_deck = opponent_archetype_name)
        a_vs_opp_opponent_wins == CountResult(a_vs_opp_opponent_games, LOSS)
        total_games_vs_specific_opponent ==
            Len(a_vs_opp_my_games) + Len(a_vs_opp_opponent_games)
        total_wins_for_a_vs_specific_opponent == a_vs_opp_my_wins + a_vs_opp_opponent_wins
    IN  IF total_games_vs_specific_opponent > 0
        THEN Percent(total_wins_for_a_vs_specific_opponent, total_games_vs_specific_opponent)
        ELSE None

\* lines 298-319: the average matchup win rate
avg_matchup_wr_deck_a(df_to_analyze, deck_a_name) ==
    LET opps == SortedStrings(unique_opponents_faced_by_deck_a(df_to_analyze, deck_a_name))
        all_rates == [i \in DOMAIN opps |->
                        matchup_win_rate_general(df_to_analyze, deck_a_name, opps[i])]
        matchup_win_rates_for_deck_a == SelectSeq(all_rates, LAMBDA w : w.some)
    IN  IF matchup_win_rates_for_deck_a # << >>
        THEN Mean(matchup_win_rates_for_deck_a)
        ELSE None

\* x if n > 0 else y, the guard of every rate
RateOrElse(wins, games, otherwise) ==
    IF games > 0 THEN Percent(wins, games) ELSE otherwise

\* line 277
wins_as_my_deck(games_as_my_deck_df) == CountResult(games_as_my_deck_df, WIN)

\* faulty variant of line 280: the result is not flipped for the opponent side
wins_as_opponent_deck_unflipped(games_as_opponent_deck_df) ==
    CountResult(games_as_opponent_deck_df, WIN)

\* line 280: a loss of the recording side is a win of the opponent deck
wins_as_opponent_deck(games_as_opponent_deck_df) ==
    CountResult(games_as_opponent_deck_df, LOSS)

\* faulty variant of line 282: the games as opponent deck are not counted
total_appearances_my_side_only(count_as_my_deck, count_as_opponent_deck) == count_as_my_deck

\* line 282
total_appearances_deck_a(count_as_my_deck, count_as_opponent_deck) ==
    count_as_my_deck + count_as_opponent_deck

\* faulty variant of line 283: the wins as opponent deck are not counted
total_wins_my_side_only(wins_my, wins_opponent) == wins_my

\* line 283
total_wins_deck_a(wins_my, wins_opponent) == wins_my + wins_opponent

\* faulty variant of line 287: the seat is not flipped for the opponent side
deck_a_first_as_opp_unflipped(games_as_opponent_deck_df) ==
    SelectSeq(games_as_opponent_deck_df, LAMBDA r : r.first_second = FIRST)

\* line 287: the opponent deck went first when the recording side went second
deck_a_first_as_opp(games_as_opponent_deck_df) ==
    SelectSeq(games_as_opponent_deck_df, LAMBDA r : r.first_second = SECOND)

\* lines 276-297 and 319: the statistics of one archetype
deck_performance(df_to_analyze, deck_a_name) ==
    LET games_as_my_deck_df == SelectSeq(df_to_analyze, LAMBDA r : r.my_deck = deck_a_name)
        count_as_my_deck == Len(games_as_my_deck_df)
        games_as_opponent_deck_df ==
            SelectSeq(df_to_analyze, LAMBDA r : r.opponent_deck = deck_a_name)
        count_as_opponent_deck == Len(games_as_opponent_deck_df)
        total_appearances == total_appearances_deck_a(count_as_my_deck, count_as_opponent_deck)
        total_wins ==
            total_wins_deck_a(wins_as_my_deck(games_as_my_deck_df),
                              wins_as_opponent_deck(games_as_opponent_deck_df))
        total_losses_deck_a == total_appearances - total_wins
        deck_a_first_as_my == SelectSeq(games_as_my_deck_df, LAMBDA r : r.first_second = FIRST)
        first_as_opp == deck_a_first_as_opp(games_as_opponent_deck_df)
        total_games_deck_a_first == Len(deck_a_first_as_my) + Len(first_as_opp)
        wins_deck_a_first ==
            CountResult(deck_a_first_as_my, WIN)
                + CountResult(first_as_opp, LOSS)
        deck_a_second_as_my ==
            SelectSeq(games_as_my_deck_df, LAMBDA r : r.first_second = SECOND)
        deck_a_second_as_opp ==
            SelectSeq(games_as_opponent_deck_df, LAMBDA r : r.first_second = FIRST)
        total_games_deck_a_second == Len(deck_a_second_as_my) + Len(deck_a_second_as_opp)
        wins_deck_a_second ==
            CountResult(deck_a_second_as_my, WIN)
                + CountResult(deck_a_second_as_opp, LOSS)
    IN  [ deck |-> deck_a_name,
          appearances |-> total_appearances,
          games_first |-> total_games_deck_a_first,
          games_second |-> total_games_deck_a_second,
          wins |-> total_wins,
          losses |-> total_losses_deck_a,
          wins_first |-> wins_deck_a_first,
          wins_second |-> wins_deck_a_second,
          win_rate |-> RateOrElse(total_wins, total_appearances, Zero),
          avg_matchup_wr |-> avg_matchup_wr_deck_a(df_to_analyze, deck_a_name),
          win_rate_first |-> RateOrElse(wins_deck_a_first, total_games_deck_a_first, None),
          win_rate_second |->
              RateOrElse(wins_deck_a_second, total_games_deck_a_second, None) ]

(***************************************************************************)
(* DataFrame.sort_values(by=key, ascending=False, na_position='last'):     *)
(* the rows with a key in descending order of the key, rows with equal     *)
(* keys in their original order, then the rows without a key in their      *)
(* original order.                                                         *)
(***************************************************************************)
RECURSIVE InsertDesc(_, _)
InsertDesc(sorted, row) ==
    IF sorted = << >> THEN << row >>
    ELSE IF RatLess(Head(sorted).avg_matchup_wr, row.avg_matchup_wr)
         THEN << row >> \o sorted
         ELSE << Head(sorted) >> \o InsertDesc(Tail(sorted), row)

RECURSIVE SortDescStable(_)
SortDescStable(rows) ==
    IF rows = << >> THEN << >>
    ELSE InsertDesc(SortDescStable(SubSeq(rows, 1, Len(rows) - 1)), rows[Len(rows)])

\* faulty variant of line 335: the rows left in the order of the loop
rows_in_loop_order(rows) == rows

\* by = "平均マッチアップ勝率 (%)"
sort_values_desc_na_last(rows) ==
    SortDescStable(SelectSeq(rows, LAMBDA r : r.avg_matchup_wr.some))
        \o SelectSeq(rows, LAMBDA r : ~r.avg_matchup_wr.some)

(***************************************************************************)
(* display_general_deck_performance (lines 267-350): the message shown     *)
(* and the table displayed.                                                *)
(***************************************************************************)
display_general_deck_performance(df_to_analyze) ==
    LET all_deck_archetypes == get_all_analyzable_deck_names(df_to_analyze)
        performance == [i \in DOMAIN all_deck_archetypes |->
                          deck_performance(df_to_analyze, all_deck_archetypes[i])]
        general_performance_data == SelectSeq(performance, LAMBDA p : p.appearances > 0)
    IN  IF all_deck_archetypes = << >>
        THEN [message |-> "no_analyzable_decks", table |-> << >>]
        ELSE IF general_performance_data = << >>
        THEN [message |-> "no_performance_data", table |-> << >>]
        ELSE [message |-> "",
              table |-> sort_values_desc_na_last(general_performance_data)]

(***************************************************************************)
(* show_analysis_section, the focus deck branch (lines 384-542).           *)
(***************************************************************************)
\* df['finish_turn'].dropna().tolist()
FinishTurns(df) ==
    LET present == SelectSeq(df, LAMBDA r : ~IsNA(r.finish_turn))
    IN  [i \in DOMAIN present |-> present[i].finish_turn[1]]

\* faulty variant of line 413: 0.0 for an empty list of turns
MeanTurnOrZero(turns) ==
    IF turns # << >> THEN Mean([i \in DOMAIN turns |-> Rat(turns[i], 1)]) ELSE Zero

\* pd.Series(turns).mean() if turns else None
MeanTurnOrNone(turns) ==
    IF turns # << >> THEN Mean([i \in DOMAIN turns |-> Rat(turns[i], 1)]) ELSE None

\* selected_focus_type and selected_focus_type != ALL_TYPES_PLACEHOLDER
TypeIsNarrowed(selected_focus_type) ==
    Truthy(selected_focus_type) /\ selected_focus_type # ALL_TYPES_PLACEHOLDER

\* lines 393-396
focus_as_my_deck_games(df_for_analysis, selected_focus_deck, selected_focus_type) ==
    SelectSeq(df_for_analysis,
              LAMBDA r : /\ r.my_deck = selected_focus_deck
                         /\ (TypeIsNarrowed(selected_focus_type)
                                => r.my_deck_type = selected_focus_type))

\* lines 397-400
focus_as_opponent_deck_games(df_for_analysis, selected_focus_deck, selected_focus_type) ==
    SelectSeq(df_for_analysis,
              LAMBDA r : /\ r.opponent_deck = selected_focus_deck
                         /\ (TypeIsNarrowed(selected_focus_type)
                                => r.opponent_deck_type = selected_focus_type))

\* lines 438-447: the (opponent deck, opponent type) pairs the focus deck has faced
all_faced_opponents_tuples(as_my, as_opp) ==
    LET opponents_set ==
            {<< as_my[i].opponent_deck, as_my[i].opponent_deck_type >> : i \in DOMAIN as_my}
                \cup {<< as_opp[i].my_deck, as_opp[i].my_deck_type >> : i \in DOMAIN as_opp}
        kept == {t \in opponents_set : Truthy(t[1]) /\ Lower(t[1]) # NAN_TEXT}
        names == SortedStrings({t[1] : t \in kept})
        TypesOf(n) == SortedStrings({t[2] : t \in {u \in kept : u[1] = n}})
        Flatten[k \in 0..Len(names)] ==
            IF k = 0 THEN << >>
            ELSE Flatten[k - 1]
                    \o [j \in DOMAIN TypesOf(names[k]) |-> << names[k], TypesOf(names[k])[j] >>]
    IN  Flatten[Len(names)]

\* faulty variant of lines 474-479: the seat of the recording side taken for the seat
\* of the focus deck when the focus deck is opponent_deck
matchup_row_specific_unflipped(as_my, as_opp, opp_deck_name, opp_deck_type) ==
    LET case1_games ==
            SelectSeq(as_my, LAMBDA r : r.opponent_deck = opp_deck_name
                                        /\ r.opponent_deck_type = opp_deck_type)
        case2_games ==
            SelectSeq(as_opp, LAMBDA r : r.my_deck = opp_deck_name
                                         /\ r.my_deck_type = opp_deck_type)
        c1_fd_first == SelectSeq(case1_games, LAMBDA r : r.first_second = FIRST)
        c1_fd_second == SelectSeq(case1_games, LAMBDA r : r.first_second = SECOND)
        c2_fd_first == SelectSeq(case2_games, LAMBDA r : r.first_second = FIRST)
        c2_fd_second == SelectSeq(case2_games, LAMBDA r : r.first_second = SECOND)
        games_played_count == Len(case1_games) + Len(case2_games)
        focus_deck_wins_count == CountResult(case1_games, WIN) + CountResult(case2_games, LOSS)
    IN  [ opponent |-> opp_deck_name,
          type |-> opp_deck_type,
          games |-> games_played_count,
          games_first |-> Len(c1_fd_first) + Len(c2_fd_first),
          wins |-> focus_deck_wins_count,
          win_rate |-> RateOrElse(focus_deck_wins_count, games_played_count, None),
          avg_win_turn |->
              MeanTurnOrNone(FinishTurns(SelectSeq(case1_games, LAMBDA r : r.result = WIN))
                               \o FinishTurns(SelectSeq(case2_games, LAMBDA r : r.result = LOSS))),
          avg_loss_turn |->
              MeanTurnOrNone(FinishTurns(SelectSeq(case1_games, LAMBDA r : r.result = LOSS))
                               \o FinishTurns(SelectSeq(case2_games, LAMBDA r : r.result = WIN))),
          win_rate_first |->
              RateOrElse(CountResult(c1_fd_first, WIN) + CountResult(c2_fd_first, LOSS),
                         Len(c1_fd_first) + Len(c2_fd_first), None),
          win_rate_second |->
              RateOrElse(CountResult(c1_fd_second, WIN) + CountResult(c2_fd_second, LOSS),
                         Len(c1_fd_second) + Len(c2_fd_second), None) ]

\* lines 449-492: one type-specific row of the matchup table
matchup_row_specific(as_my, as_opp, opp_deck_name, opp_deck_type) ==
    LET case1_games ==
            SelectSeq(as_my, LAMBDA r : r.opponent_deck = opp_deck_name
                                        /\ r.opponent_deck_type = opp_deck_type)
        case1_wins_df == SelectSeq(case1_games, LAMBDA r : r.result = WIN)
        case1_losses_df == SelectSeq(case1_games, LAMBDA r : r.result = LOSS)
        c1_fd_first == SelectSeq(case1_games, LAMBDA r : r.first_second = FIRST)
        c1_fd_second == SelectSeq(case1_games, LAMBDA r : r.first_second = SECOND)
        case2_games ==
            SelectSeq(as_opp, LAMBDA r : r.my_deck = opp_deck_name
                                         /\ r.my_deck_type = opp_deck_type)
        case2_focus_wins_df == SelectSeq(case2_games, LAMBDA r : r.result = LOSS)
        case2_focus_losses_df == SelectSeq(case2_games, LAMBDA r : r.result = WIN)
        c2_fd_first == SelectSeq(case2_games, LAMBDA r : r.first_second = SECOND)
        c2_fd_second == SelectSeq(case2_games, LAMBDA r : r.first_second = FIRST)
        games_played_count == Len(case1_games) + Len(case2_games)
        focus_deck_wins_count == Len(case1_wins_df) + Len(case2_focus_wins_df)
        focus_deck_win_turns_vs_opp ==
            FinishTurns(case1_wins_df) \o FinishTurns(case2_focus_wins_df)
        focus_deck_loss_turns_vs_opp ==
            FinishTurns(case1_losses_df) \o FinishTurns(case2_focus_losses_df)
        fd_vs_opp_first_games_count == Len(c1_fd_first) + Len(c2_fd_first)
        fd_vs_opp_first_wins_count ==
            CountResult(c1_fd_first, WIN)
                + CountResult(c2_fd_first, LOSS)
        fd_vs_opp_second_games_count == Len(c1_fd_second) + Len(c2_fd_second)
        fd_vs_opp_second_wins_count ==
            CountResult(c1_fd_second, WIN)
                + CountResult(c2_fd_second, LOSS)
    IN  [ opponent |-> opp_deck_name,
          type |-> opp_deck_type,
          games |-> games_played_count,
          games_first |-> fd_vs_opp_first_games_count,
          wins |-> focus_deck_wins_count,
          win_rate |-> RateOrElse(focus_deck_wins_count, games_played_count, None),
          avg_win_turn |-> MeanTurnOrNone(focus_deck_win_turns_vs_opp),
          avg_loss_turn |-> MeanTurnOrNone(focus_deck_loss_turns_vs_opp),
          win_rate_first |->
              RateOrElse(fd_vs_opp_first_wins_count, fd_vs_opp_first_games_count, None),
          win_rate_second |->
              RateOrElse(fd_vs_opp_second_wins_count, fd_vs_opp_second_games_count, None) ]

\* lines 497-528: the "全タイプ" row of one opponent archetype
matchup_row_all_types(as_my, as_opp, opp_deck_name_agg) ==
    LET case1_agg_games_total ==
            SelectSeq(as_my, LAMBDA r : r.opponent_deck = opp_deck_name_agg)
        case2_agg_games_total == SelectSeq(as_opp, LAMBDA r : r.my_deck = opp_deck_name_agg)
        total_games_vs_opp_deck_agg ==
            Len(case1_agg_games_total) + Len(case2_agg_games_total)
        focus_wins_agg1_df == SelectSeq(case1_agg_games_total, LAMBDA r : r.result = WIN)
        focus_wins_agg2_df == SelectSeq(case2_agg_games_total, LAMBDA r : r.result = LOSS)
        total_focus_wins_vs_opp_deck_agg == Len(focus_wins_agg1_df) + Len(focus_wins_agg2_df)
        focus_losses_agg1_df == SelectSeq(case1_agg_games_total, LAMBDA r : r.result = LOSS)
        focus_losses_agg2_df == SelectSeq(case2_agg_games_total, LAMBDA r : r.result = WIN)
        all_win_turns_agg == FinishTurns(focus_wins_agg1_df) \o FinishTurns(focus_wins_agg2_df)
        all_loss_turns_agg ==
            FinishTurns(focus_losses_agg1_df) \o FinishTurns(focus_losses_agg2_df)
        c1_fd_first_agg_total ==
            SelectSeq(case1_agg_games_total, LAMBDA r : r.first_second = FIRST)
        c2_fd_first_agg_total ==
            SelectSeq(case2_agg_games_total, LAMBDA r : r.first_second = SECOND)
        fd_first_games_agg_total_count ==
            Len(c1_fd_first_agg_total) + Len(c2_fd_first_agg_total)
        fd_first_wins_agg_total ==
            CountResult(c1_fd_first_agg_total, WIN)
                + CountResult(c2_fd_first_agg_total, LOSS)
        c1_fd_second_agg_total ==
            SelectSeq(case1_agg_games_total, LAMBDA r : r.first_second = SECOND)
        c2_fd_second_agg_total ==
            SelectSeq(case2_agg_games_total, LAMBDA r : r.first_second = FIRST)
        fd_second_games_agg_total_count ==
            Len(c1_fd_second_agg_total) + Len(c2_fd_second_agg_total)
        fd_second_wins_agg_total ==
            CountResult(c1_fd_second_agg_total, WIN)
                + CountResult(c2_fd_second_agg_total, LOSS)
    IN  [ opponent |-> opp_deck_name_agg,
          type |-> ALL_TYPES_PLACEHOLDER,
          games |-> total_games_vs_opp_deck_agg,
          games_first |-> fd_first_games_agg_total_count,
          wins |-> total_focus_wins_vs_opp_deck_agg,
          win_rate |->
              RateOrElse(total_focus_wins_vs_opp_deck_agg, total_games_vs_opp_deck_agg, Zero),
          avg_win_turn |-> MeanTurnOrNone(all_win_turns_agg),
          avg_loss_turn |-> MeanTurnOrNone(all_loss_turns_agg),
          win_rate_first |->
              RateOrElse(fd_first_wins_agg_total, fd_first_games_agg_total_count, None),
          win_rate_second |->
              RateOrElse(fd_second_wins_agg_total, fd_second_games_agg_total_count, None) ]

\* line 532: the secondary sort key of a matchup row
\* '0_AllTypes' if x == ALL_TYPES_PLACEHOLDER else '1_' + str(x)
sort_type_key(type) ==
    IF type = ALL_TYPES_PLACEHOLDER
    THEN << 48, 95, 65, 108, 108, 84, 121, 112, 101, 115 >>
    ELSE Concat(<< 49, 95 >>, type)

\* row a sorts strictly before row b by ["対戦相手デッキ", "__sort_type"]
MatchupRowLess(a, b) ==
    \/ StrLess(a.opponent, b.opponent)
    \/ /\ a.opponent = b.opponent
       /\ StrLess(sort_type_key(a.type), sort_type_key(b.type))

\* line 533: sort_values by two columns (a stable sort)
RECURSIVE InsertMatchupRow(_, _)
InsertMatchupRow(sorted, row) ==
    IF sorted = << >> THEN << row >>
    ELSE IF MatchupRowLess(row, Head(sorted))
         THEN << row >> \o sorted
         ELSE << Head(sorted) >> \o InsertMatchupRow(Tail(sorted), row)

RECURSIVE SortMatchupRows(_)
SortMatchupRows(rows) ==
    IF rows = << >> THEN << >>
    ELSE InsertMatchupRow(SortMatchupRows(SubSeq(rows, 1, Len(rows) - 1)), rows[Len(rows)])

\* first occurrences, in order: Series.unique()
RECURSIVE Unique(_)
Unique(xs) ==
    IF xs = << >> THEN << >>
    ELSE LET init == Unique(SubSeq(xs, 1, Len(xs) - 1))
         IN  IF xs[Len(xs)] \in Range(init) THEN init ELSE Append(init, xs[Len(xs)])

\* lines 448-494: matchup_data, the type-specific rows with at least one game
matchup_data_rows(as_my, as_opp, tuples) ==
    SelectSeq([i \in DOMAIN tuples |->
                  matchup_row_specific(as_my, as_opp, tuples[i][1], tuples[i][2])],
              LAMBDA m : m.games > 0)

\* faulty variant of lines 497-500: the games recorded from the opponent's side
\* (case2_agg_games_total) are left out of the "全タイプ" rows
agg_matchup_data_rows_my_side_only(as_my, as_opp, opp_names) ==
    SelectSeq([i \in DOMAIN opp_names |->
                  matchup_row_all_types(as_my, << >>, opp_names[i])],
              LAMBDA m : m.games > 0)

\* lines 495-529: agg_matchup_data, the "全タイプ" rows with at least one game
agg_matchup_data_rows(as_my, as_opp, opp_names) ==
    SelectSeq([i \in DOMAIN opp_names |->
                  matchup_row_all_types(as_my, as_opp, opp_names[i])],
              LAMBDA m : m.games > 0)

\* lines 530-533: matchup_df_final
matchup_df_final(matchup_data, agg_matchup_data) == SortMatchupRows(matchup_data \o agg_matchup_data)

\* lines 493-533: the table for the type-specific rows matchup_data
matchup_table_of(as_my, as_opp, matchup_data) ==
    IF matchup_data = << >> THEN << >>
    ELSE matchup_df_final(
             matchup_data,
             agg_matchup_data_rows(
                 as_my, as_opp,
                 Unique([i \in DOMAIN matchup_data |-> matchup_data[i].opponent])))

\* lines 438-533: the matchup table of the focus deck
matchup_table(as_my, as_opp) ==
    matchup_table_of(
        as_my, as_opp,
        matchup_data_rows(as_my, as_opp, all_faced_opponents_tuples(as_my, as_opp)))

NoFocusStats ==
    [ appearances |-> 0, wins |-> 0, losses |-> 0, win_rate |-> None,
      avg_win_finish_turn |-> None,
      games_first |-> 0, wins_first |-> 0, win_rate_first |-> None,
      games_second |-> 0, wins_second |-> 0, win_rate_second |-> None ]

\* lines 405-423: the statistics of the focus deck
focus_stats(as_my, as_opp) ==
    LET total_appearances == Len(as_my) + Len(as_opp)
        wins_when_focus_is_my_deck_df == SelectSeq(as_my, LAMBDA r : r.result = WIN)
        wins_when_focus_is_opponent_deck_df == SelectSeq(as_opp, LAMBDA r : r.result = LOSS)
        total_wins_for_focus_deck ==
            Len(wins_when_focus_is_my_deck_df) + Len(wins_when_focus_is_opponent_deck_df)
        total_losses_for_focus_deck == total_appearances - total_wins_for_focus_deck
        win_finish_turns ==
            FinishTurns(wins_when_focus_is_my_deck_df)
                \o FinishTurns(wins_when_focus_is_opponent_deck_df)
        focus_first_my == SelectSeq(as_my, LAMBDA r : r.first_second = FIRST)
        focus_first_opp == SelectSeq(as_opp, LAMBDA r : r.first_second = SECOND)
        total_games_focus_first == Len(focus_first_my) + Len(focus_first_opp)
        wins_focus_first ==
            CountResult(focus_first_my, WIN)
                + CountResult(focus_first_opp, LOSS)
        focus_second_my == SelectSeq(as_my, LAMBDA r : r.first_second = SECOND)
        focus_second_opp == SelectSeq(as_opp, LAMBDA r : r.first_second = FIRST)
        total_games_focus_second == Len(focus_second_my) + Len(focus_second_opp)
        wins_focus_second ==
            CountResult(focus_second_my, WIN)
                + CountResult(focus_second_opp, LOSS)
    IN  [ appearances |-> total_appearances,
          wins |-> total_wins_for_focus_deck,
          losses |-> total_losses_for_focus_deck,
          win_rate |-> RateOrElse(total_wins_for_focus_deck, total_appearances, Zero),
          avg_win_finish_turn |-> MeanTurnOrNone(win_finish_turns),
          games_first |-> total_games_focus_first,
          wins_first |-> wins_focus_first,
          win_rate_first |-> RateOrElse(wins_focus_first, total_games_focus_first, None),
          games_second |-> total_games_focus_second,
          wins_second |-> wins_focus_second,
          win_rate_second |->
              RateOrElse(wins_focus_second, total_games_focus_second, None) ]

\* lines 424-542: what is displayed for the statistics and the matchup table
focus_displayed(stats, table) ==
    [ message |-> IF table = << >> THEN "no_matchup_records" ELSE "",
      stats |-> stats,
      matchup |-> table ]

\* the focus deck branch with the statistics and the matchup table displayed
focus_display(as_my, as_opp) ==
    focus_displayed(focus_stats(as_my, as_opp), matchup_table(as_my, as_opp))

\* faulty variant of lines 393-542: no return at lines 402-404, the statistics are
\* computed and displayed for a focus deck with no game
focus_deck_analysis_without_return(df_for_analysis, selected_focus_deck, selected_focus_type) ==
    focus_display(
        focus_as_my_deck_games(df_for_analysis, selected_focus_deck, selected_focus_type),
        focus_as_opponent_deck_games(df_for_analysis, selected_focus_deck,
                                     selected_focus_type))

\* lines 401-542: the focus deck branch on the games of the focus deck; with no game
\* it warns and returns (lines 402-404)
focus_deck_analysis_of(as_my, as_opp) ==
    IF Len(as_my) + Len(as_opp) = 0
    THEN [message |-> "focus_no_records", stats |-> NoFocusStats, matchup |-> << >>]
    ELSE focus_display(as_my, as_opp)

\* lines 393-542: what the focus deck branch displays
focus_deck_analysis(df_for_analysis, selected_focus_deck, selected_focus_type) ==
    focus_deck_analysis_of(
        focus_as_my_deck_games(df_for_analysis, selected_focus_deck, selected_focus_type),
        focus_as_opponent_deck_games(df_for_analysis, selected_focus_deck,
                                     selected_focus_type))

(***************************************************************************)
(* show_analysis_section (lines 352-560).                                  *)
(*                                                                         *)
(* session is st.session_state restricted to the four analysis widgets:    *)
(* season (ana_season_filter), environments (ana_environment_filter),      *)
(* focus_deck (ana_focus_deck_name_selector) and focus_type                *)
(* (ana_focus_deck_type_selector).  A select box whose stored value is not *)
(* among the options it is created with shows its first option; the state *)
(* of a widget the run does not create is dropped.                         *)
(***************************************************************************)
DefaultSession ==
    [ season |-> SELECT_PLACEHOLDER, environments |-> {},
      focus_deck |-> SELECT_PLACEHOLDER, focus_type |-> ALL_TYPES_PLACEHOLDER ]

NoFocus == [message |-> "", stats |-> NoFocusStats, matchup |-> << >>]

\* what a run displays: the branch taken, the message, and the two tables
BlankScreen ==
    [ branch |-> "none", message |-> "", archetypes |-> << >>, general |-> << >>,
      focus |-> NoFocus ]

\* st.selectbox(options, key): the stored value if it is an option, else options[0]
SelectboxValue(options, stored) == IF stored \in Range(options) THEN stored ELSE options[1]

\* st.multiselect(options, key): the stored values if all are options, else none
MultiselectValue(options, stored) == IF stored \subseteq Range(options) THEN stored ELSE {}

\* line 358
all_seasons(original_df) ==
    << SELECT_PLACEHOLDER >>
        \o SortedStrings({s \in NonEmptyValues(original_df, "season") :
                            Truthy(s) /\ Lower(s) # NAN_TEXT})

\* line 360
all_environments(original_df) ==
    << SELECT_PLACEHOLDER >>
        \o SortedStrings({e \in NonEmptyValues(original_df, "environment") :
                            Truthy(e) /\ Lower(e) # NAN_TEXT})

\* line 363: a season is selected
SeasonIsSelected(selected_season_for_analysis) ==
    Truthy(selected_season_for_analysis) /\ selected_season_for_analysis # SELECT_PLACEHOLDER

\* faulty variant of lines 362-366: the environment filter is applied to the loaded
\* table, not to the rows of the selected season
filter_for_analysis_environment_on_loaded(original_df, selected_season_for_analysis, selected_environments) ==
    IF selected_environments # {}
    THEN SelectSeq(original_df, LAMBDA r : r.environment \in selected_environments)
    ELSE IF SeasonIsSelected(selected_season_for_analysis)
    THEN SelectSeq(original_df, LAMBDA r : r.season = selected_season_for_analysis)
    ELSE original_df

\* faulty variant of lines 362-366: a filter that is selected also drops the first of
\* the rows it keeps
filter_for_analysis_dropping_first(original_df, selected_season_for_analysis, selected_environments) ==
    LET by_season ==
            IF SeasonIsSelected(selected_season_for_analysis)
            THEN SelectSeq(original_df, LAMBDA r : r.season = selected_season_for_analysis)
            ELSE original_df
        kept ==
            IF selected_environments # {}
            THEN SelectSeq(by_season, LAMBDA r : r.environment \in selected_environments)
            ELSE by_season
    IN  IF (SeasonIsSelected(selected_season_for_analysis) \/ selected_environments # {})
           /\ kept # << >>
        THEN Tail(kept)
        ELSE kept

\* lines 362-366: df_for_analysis
filter_for_analysis(original_df, selected_season_for_analysis, selected_environments) ==
    LET by_season ==
            IF SeasonIsSelected(selected_season_for_analysis)
            THEN SelectSeq(original_df, LAMBDA r : r.season = selected_season_for_analysis)
            ELSE original_df
    IN  IF selected_environments # {}
        THEN SelectSeq(by_season, LAMBDA r : r.environment \in selected_environments)
        ELSE by_season

\* lines 384-542: the run with a focus deck selected
focus_branch_shown(archetypes, session, selected_focus_deck, selected_focus_type, focus) ==
    [ session |-> [session EXCEPT !.focus_deck = selected_focus_deck,
                                  !.focus_type = selected_focus_type],
      screen |-> [ branch |-> "focus", message |-> focus.message,
                   archetypes |-> archetypes, general |-> << >>, focus |-> focus ] ]

\* lines 385-542, for the type selected_focus_type
focus_branch_of_type(df_for_analysis, archetypes, session, selected_focus_deck, selected_focus_type) ==
    focus_branch_shown(
        archetypes, session, selected_focus_deck, selected_focus_type,
        focus_deck_analysis(df_for_analysis, selected_focus_deck, selected_focus_type))

\* lines 559-560: the run with no focus deck selected
general_branch_shown(archetypes, session, general) ==
    [ session |-> [session EXCEPT !.focus_deck = SELECT_PLACEHOLDER,
                                  !.focus_type = ALL_TYPES_PLACEHOLDER],
      screen |-> [ branch |-> "general", message |-> general.message,
                   archetypes |-> archetypes, general |-> general.table,
                   focus |-> NoFocus ] ]

\* lines 384-560: the two branches, for the focus deck selected_focus_deck
analysis_for_focus_deck(df_for_analysis, archetypes, session, selected_focus_deck) ==
    IF Truthy(selected_focus_deck) /\ selected_focus_deck # SELECT_PLACEHOLDER
    THEN focus_branch_of_type(
             df_for_analysis, archetypes, session, selected_focus_deck,
             SelectboxValue(get_all_types_for_archetype(df_for_analysis, selected_focus_deck),
                            session.focus_type))
    ELSE general_branch_shown(archetypes, session,
                              display_general_deck_performance(df_for_analysis))

\* lines 380-560, for the archetypes of df_for_analysis
analysis_for_archetypes(df_for_analysis, archetypes, session) ==
    analysis_for_focus_deck(
        df_for_analysis, archetypes, session,
        SelectboxValue(<< SELECT_PLACEHOLDER >> \o archetypes, session.focus_deck))

\* lines 373-560: the part of the run below the filters, on a non-empty df_for_analysis
analysis_below_filters(df_for_analysis, session) ==
    analysis_for_archetypes(df_for_analysis,
                            get_all_analyzable_deck_names(df_for_analysis), session)

\* faulty variant of lines 368-370: the message does not depend on the filters
empty_selection_message_unfiltered(selected_season_for_analysis, selected_environments) ==
    "no_target_data"

\* lines 368-370: the message shown for an empty df_for_analysis
empty_selection_message(selected_season_for_analysis, selected_environments) ==
    IF SeasonIsSelected(selected_season_for_analysis) \/ selected_environments # {}
    THEN "filter_no_match"
    ELSE "no_target_data"

\* lines 367-560: the run on df_for_analysis, with the filters stored in the session
analysis_of_filtered(df_for_analysis, filtered_session, below) ==
    IF IsEmpty(df_for_analysis)
    THEN [ session |-> [filtered_session EXCEPT !.focus_deck = SELECT_PLACEHOLDER,
                                                !.focus_type = ALL_TYPES_PLACEHOLDER],
           df_for_analysis |-> df_for_analysis,
           screen |-> [BlankScreen EXCEPT
                          !.branch = "empty",
                          !.message = empty_selection_message(filtered_session.season,
                                                              filtered_session.environments)] ]
    ELSE [ session |-> below.session, df_for_analysis |-> df_for_analysis,
           screen |-> below.screen ]

\* lines 367-560, for the table the filters leave
analysis_of_table(df_for_analysis, filtered_session) ==
    analysis_of_filtered(df_for_analysis, filtered_session,
                         analysis_below_filters(df_for_analysis, filtered_session))

\* lines 362-560, for the values of the two filter widgets
analysis_with_filters(original_df, session, selected_season_for_analysis, selected_environments) ==
    analysis_of_table(
        filter_for_analysis(original_df, selected_season_for_analysis, selected_environments),
        [session EXCEPT !.season = selected_season_for_analysis,
                        !.environments = selected_environments])

show_analysis_section(original_df, session) ==
    IF IsEmpty(original_df)
    THEN [ session |-> DefaultSession, df_for_analysis |-> << >>,
           screen |-> [BlankScreen EXCEPT !.branch = "empty",
                                          !.message = "no_records_yet"] ]
    ELSE analysis_with_filters(
             original_df, session,
             SelectboxValue(all_seasons(original_df), session.season),
             MultiselectValue(all_environments(original_df), session.environments))

(***************************************************************************)
(* The worksheet: its header row and its data rows.  A data row is a       *)
(* record of cells, one per column of COLUMNS; text cells are text, the    *)
(* date and finish_turn cells are << >> (blank) or << number >>, or, in a  *)
(* sheet another writer filled, << n, d >> (the number n/d, no integer) or *)
(* a text of three characters or more that is no date and no number.       *)
(***************************************************************************)
EmptySheet == [header |-> << >>, rows |-> << >>]

\* the texts the pandas parser behind get_as_dataframe(na_filter=True) reads as NaN
\* ('', 'nan', 'NaN', 'NA', 'null'; a part of the parser's default list)
PandasNaTexts == { EMPTY_TEXT, NAN_TEXT, sNaNUpper, << 78, 65 >>, << 110, 117, 108, 108 >> }

\* lines 119-123: a text column after get_as_dataframe and astype(str).fillna('')
load_text_cell(cell) == IF cell \in PandasNaTexts THEN NAN_TEXT ELSE cell

\* line 115: pd.to_datetime(errors='coerce') on a date cell: << d >> is the date d,
\* any other cell (blank, or a text that is no date) becomes NaT
to_datetime_coerce(cell) == IF Len(cell) = 1 THEN cell ELSE NA

\* line 117: pd.to_numeric(errors='coerce') on a finish_turn cell: << n >> is the
\* integer n, << n, d >> the number n/d that is no integer; any other cell (blank, or
\* a text that is no number) becomes NaN
to_numeric_coerce(cell) == IF Len(cell) \in {1, 2} THEN cell ELSE NA

\* line 117: .astype('Int64') raises TypeError (cannot safely cast non-equivalent
\* float64 to int64) when a number of the column is no integer
astype_Int64_raises(rows) ==
    \E i \in DOMAIN rows : Len(to_numeric_coerce(rows[i].finish_turn)) = 2

\* lines 90-127: the table of a worksheet that was read
normalize_rows(rows) ==
    [ i \in DOMAIN rows |->
        [ index |-> i - 1,
          season |-> load_text_cell(rows[i].season),
          date |-> to_datetime_coerce(rows[i].date),
          environment |-> load_text_cell(rows[i].environment),
          my_deck |-> load_text_cell(rows[i].my_deck),
          my_deck_type |-> load_text_cell(rows[i].my_deck_type),
          opponent_deck |-> load_text_cell(rows[i].opponent_deck),
          opponent_deck_type |-> load_text_cell(rows[i].opponent_deck_type),
          first_second |-> load_text_cell(rows[i].first_second),
          result |-> load_text_cell(rows[i].result),
          finish_turn |-> to_numeric_coerce(rows[i].finish_turn),
          memo |-> load_text_cell(rows[i].memo) ] ]

LoadOutcomes ==
    {"ok", "no_client", "spreadsheet_not_found", "worksheet_not_found", "exception"}

\* line 93 and lines 104-111: the cells of the columns of COLUMNS as read from the
\* sheet; a column the header row does not name is missing in every row
sheet_cells(worksheet) ==
    [ i \in DOMAIN worksheet.rows |->
        [ col \in Range(COLUMNS) |->
            IF col \in Range(worksheet.header) THEN worksheet.rows[i][col] ELSE NA ] ]

\* faulty variant of lines 135-137: the rows read are kept when an exception is caught
load_data_keeping_rows(worksheet, outcome) ==
    IF outcome \in {"ok", "exception"} THEN normalize_rows(sheet_cells(worksheet)) ELSE << >>

\* load_data (lines 80-138); outcome is what the Google Sheets calls do.  An
\* exception of the normalization is caught at line 135 like one of the calls.
load_data(worksheet, outcome) ==
    IF outcome = "ok" /\ ~astype_Int64_raises(sheet_cells(worksheet))
    THEN normalize_rows(sheet_cells(worksheet))
    ELSE << >>

\* df[col] = ... on the columns of a DataFrame: a new column is added last
RECURSIVE with_columns(_, _)
with_columns(columns, cols) ==
    IF cols = << >> THEN columns
    ELSE with_columns(IF Head(cols) \in Range(columns) THEN columns
                      ELSE Append(columns, Head(cols)),
                      Tail(cols))

\* the columns of the DataFrame load_data returns: pd.DataFrame(columns=COLUMNS) with
\* its columns assigned (lines 84-88, or 103-125 and reindex(columns=COLUMNS) at 127),
\* or pd.DataFrame(columns=COLUMNS) alone (lines 131, 134, 137)
load_data_columns(worksheet, outcome) ==
    IF outcome \in {"ok", "no_client"} THEN with_columns(COLUMNS, COLUMNS) ELSE COLUMNS

SaveOutcomes == {"ok", "no_client", "open_failed", "append_failed"}

\* lines 155-166: the cells appended for a record
data_to_append(record) ==
    [ season |-> record.season, date |-> record.date, environment |-> record.environment,
      my_deck |-> record.my_deck, my_deck_type |-> record.my_deck_type,
      opponent_deck |-> record.opponent_deck,
      opponent_deck_type |-> record.opponent_deck_type,
      first_second |-> record.first_second, result |-> record.result,
      finish_turn |-> record.finish_turn, memo |-> record.memo ]

\* lines 148-154: the header row after save_data looked at it
header_after_check(current_headers) ==
    IF current_headers = << >> \/ Len(current_headers) < Len(COLUMNS)
          \/ SubSeq(current_headers, 1, Len(COLUMNS)) # COLUMNS
    THEN COLUMNS
    ELSE current_headers

\* save_data (lines 140-171): the value returned and the worksheet left behind
save_data(worksheet, record, outcome) ==
    IF outcome \in {"no_client", "open_failed"}
    THEN [ok |-> FALSE, worksheet |-> worksheet]
    ELSE IF outcome = "append_failed"
    THEN [ok |-> FALSE,
          worksheet |-> [worksheet EXCEPT !.header = header_after_check(worksheet.header)]]
    ELSE [ok |-> TRUE,
          worksheet |-> [ header |-> header_after_check(worksheet.header),
                          rows |-> Append(worksheet.rows, data_to_append(record)) ]]

\* lines 735-741: the submitted values pass the validation
record_is_valid(record) ==
    /\ Truthy(record.season) /\ record.season # NEW_ENTRY_LABEL
    /\ Truthy(record.my_deck) /\ record.my_deck # NEW_ENTRY_LABEL
    /\ Truthy(record.my_deck_type) /\ record.my_deck_type # NEW_ENTRY_LABEL
    /\ Truthy(record.opponent_deck) /\ record.opponent_deck # NEW_ENTRY_LABEL
    /\ Truthy(record.opponent_deck_type) /\ record.opponent_deck_type # NEW_ENTRY_LABEL
    /\ Truthy(record.environment) /\ record.environment # NEW_ENTRY_LABEL
    /\ ~IsNA(record.finish_turn)

(***************************************************************************)
(* The button '戦績を記録' (lines 715-772).  form is st.session_state of    *)
(* the input widgets; a key that is not set holds the empty text, and      *)
(* inp_finish_turn holds << >> for None.                                   *)
(***************************************************************************)
\* lines 716-721: the text input if the selectbox is on the new-entry label
final_value(select, new) == IF select = NEW_ENTRY_LABEL THEN new ELSE select

\* faulty variant of lines 704 and 706: the session value as it is, set or not
session_value_unchecked(first, second, stored) == stored

\* lines 704 and 706: a selectbox of two options; index=0 when its key is not set
two_option_selectbox(first, second, stored) == SelectboxValue(<< first, second >>, stored)

\* lines 729-730: st.session_state.get('inp_first_second'), .get('inp_result'), after
\* the two selectboxes were drawn
first_second_val(form) == two_option_selectbox(FIRST, SECOND, form.inp_first_second)

result_val(form) == two_option_selectbox(WIN, LOSS, form.inp_result)

\* lines 716-732 and 749-757: new_record_data
new_record_data(form) ==
    [ season |-> final_value(form.inp_season_select, form.inp_season_new),
      date |-> form.inp_date,
      environment |->
          LET final_environment ==
                  final_value(form.inp_environment_select, form.inp_environment_new)
          IN  IF final_environment = NEW_ENTRY_LABEL THEN EMPTY_TEXT ELSE final_environment,
      my_deck |-> final_value(form.inp_my_deck, form.inp_my_deck_new),
      my_deck_type |-> final_value(form.inp_my_deck_type, form.inp_my_deck_type_new),
      opponent_deck |-> final_value(form.inp_opponent_deck, form.inp_opponent_deck_new),
      opponent_deck_type |->
          final_value(form.inp_opponent_deck_type, form.inp_opponent_deck_type_new),
      first_second |-> first_second_val(form),
      result |-> result_val(form),
      finish_turn |-> form.inp_finish_turn,
      memo |-> form.inp_memo ]

\* faulty variant of lines 735-741: the season is not looked at
error_messages_without_season(record) ==
    { col \in {"my_deck", "my_deck_type", "opponent_deck", "opponent_deck_type",
               "environment"} :
        ~Truthy(record[col]) \/ record[col] = NEW_ENTRY_LABEL }
      \cup (IF IsNA(record.finish_turn) THEN {"finish_turn"} ELSE {})

\* lines 734-741: error_messages, as the set of the fields complained about
error_messages(record) ==
    { col \in {"season", "my_deck", "my_deck_type", "opponent_deck", "opponent_deck_type",
               "environment"} :
        ~Truthy(record[col]) \/ record[col] = NEW_ENTRY_LABEL }
      \cup (IF IsNA(record.finish_turn) THEN {"finish_turn"} ELSE {})

\* lines 744-772: the record is saved if there is no error message
submit_result(worksheet, record, errors, saved) ==
    IF errors = {}
    THEN [save_called |-> TRUE, saved |-> save_data(worksheet, record, saved)]
    ELSE [save_called |-> FALSE, saved |-> [ok |-> FALSE, worksheet |-> worksheet]]

(***************************************************************************)
(* Bounds and input sets of the model.                                     *)
(***************************************************************************)
\* data rows a worksheet holds at most (specification Spec)
MaxSheetRows == 2

\* rows of a table handed to the aggregation (SpecOverall, SpecMatchup)
MaxOverallRows == 2

\* rows of a table whose finish turns vary (SpecTurns)
MaxTurnRows == 2

MaxTypeRows == 2

MaxNameRows == 2

MaxKindRows == 2

MaxRawRows == 2

MaxColumnRows == 2

MaxStoredRows == 1

MaxMatchupRows == 2

\* the value st.number_input('決着ターン') starts with (line 708)
DefaultFinishTurn == 3

\* the day entered in the form
SomeDate == << 1 >>

\* records entered in the form (specification Spec): the season may be left empty
FormRecords ==
    [ season : {sS1, sS2, EMPTY_TEXT}, date : {SomeDate}, environment : {sE1, sE2},
      my_deck : {sX}, my_deck_type : {sT1}, opponent_deck : {sY},
      opponent_deck_type : {sT1}, first_second : {FIRST}, result : {WIN},
      finish_turn : {<< DefaultFinishTurn >>}, memo : {EMPTY_TEXT} ]

\* rows another writer puts into the worksheet: season and environment may be blank
ForeignRows ==
    [ season : {sS1, EMPTY_TEXT}, date : {SomeDate}, environment : {sE1, EMPTY_TEXT},
      my_deck : {sX}, my_deck_type : {sT1}, opponent_deck : {sY},
      opponent_deck_type : {sT1}, first_second : {FIRST}, result : {WIN},
      finish_turn : {<< DefaultFinishTurn >>}, memo : {EMPTY_TEXT} ]

(***************************************************************************)
(* State.                                                                  *)
(***************************************************************************)
VARIABLES
    worksheet,          \* the Google Sheets worksheet
    df,                 \* the table load_data returned in the last run
    session,            \* st.session_state of the analysis widgets
    df_for_analysis,    \* the table the last run handed to the aggregation
    screen              \* what the last run displayed

vars == << worksheet, df, session, df_for_analysis, screen >>

Init ==
    /\ worksheet = EmptySheet
    /\ df = << >>
    /\ session = DefaultSession
    /\ df_for_analysis = << >>
    /\ screen = BlankScreen

\* the state after a run that loaded the table `loaded` and displayed `shown`
RunShown(loaded, shown) ==
    /\ df' = loaded
    /\ session' = shown.session
    /\ df_for_analysis' = shown.df_for_analysis
    /\ screen' = shown.screen

\* line 774: show_analysis_section on the table loaded
RunOn(loaded, s) == RunShown(loaded, show_analysis_section(loaded, s))

\* one run of the script on the worksheet ws with the session state s (lines 620, 774)
ScriptRun(ws, s, outcome) == RunOn(load_data(ws, outcome), s)

\* the page is opened or reloaded
Rerun ==
    \E outcome \in LoadOutcomes :
        /\ ScriptRun(worksheet, session, outcome)
        /\ UNCHANGED worksheet

\* the user picks a season in 'ana_season_filter' (line 359)
ChangeSeasonFilter ==
    /\ screen.branch # "none" /\ ~IsEmpty(df)
    /\ \E s \in Range(all_seasons(df)) \ {session.season}, outcome \in LoadOutcomes :
          ScriptRun(worksheet, [session EXCEPT !.season = s], outcome)
    /\ UNCHANGED worksheet

\* the user changes 'ana_environment_filter' (line 361)
ChangeEnvironmentFilter ==
    /\ screen.branch # "none" /\ ~IsEmpty(df)
    /\ \E es \in (SUBSET Range(all_environments(df))) \ {session.environments},
          outcome \in LoadOutcomes :
          ScriptRun(worksheet, [session EXCEPT !.environments = es], outcome)
    /\ UNCHANGED worksheet

\* the user picks a focus deck (line 381); reset_focus_type_callback drops the type
ChangeFocusDeck ==
    /\ screen.branch \in {"general", "focus"}
    /\ \E d \in (Range(get_all_analyzable_deck_names(df_for_analysis))
                    \cup {SELECT_PLACEHOLDER}) \ {session.focus_deck},
          outcome \in LoadOutcomes :
          ScriptRun(worksheet,
                    [session EXCEPT !.focus_deck = d, !.focus_type = ALL_TYPES_PLACEHOLDER],
                    outcome)
    /\ UNCHANGED worksheet

\* the user picks a type of the focus deck (line 386)
ChangeFocusType ==
    /\ screen.branch = "focus"
    /\ \E t \in Range(get_all_types_for_archetype(df_for_analysis, session.focus_deck))
                  \ {session.focus_type},
          outcome \in LoadOutcomes :
          ScriptRun(worksheet, [session EXCEPT !.focus_type = t], outcome)
    /\ UNCHANGED worksheet

\* the user presses '戦績を記録' (lines 715-772): the record is validated, saved, and
\* after a successful save the script runs again on the worksheet as saved
SubmitRecord ==
    /\ screen.branch # "none"
    /\ Len(worksheet.rows) < MaxSheetRows
    /\ \E record \in FormRecords, saved \in SaveOutcomes, outcome \in LoadOutcomes :
          LET result == IF record_is_valid(record)
                        THEN save_data(worksheet, record, saved)
                        ELSE [ok |-> FALSE, worksheet |-> worksheet]
          IN  /\ worksheet' = result.worksheet
              /\ ScriptRun(result.worksheet, session, outcome)

\* another writer appends a row to the worksheet
ForeignAppend ==
    /\ Len(worksheet.rows) < MaxSheetRows
    /\ \E row \in ForeignRows :
          worksheet' = [ header |-> COLUMNS, rows |-> Append(worksheet.rows, row) ]
    /\ UNCHANGED << df, session, df_for_analysis, screen >>

Next ==
    \/ Rerun
    \/ ChangeSeasonFilter
    \/ ChangeEnvironmentFilter
    \/ ChangeFocusDeck
    \/ ChangeFocusType
    \/ SubmitRecord
    \/ ForeignAppend

Spec == Init /\ [][Next]_vars

(***************************************************************************)
(* The aggregation as a function of its inputs: the table is any table     *)
(* over a small set of rows, and the queries are the two branches of       *)
(* show_analysis_section on that table, without a filter.                  *)
(***************************************************************************)
\* rows for the statistics of one archetype: the side, the result, the seat and the
\* type of the recording side vary
OverallRows ==
    [ season : {sS1}, date : {SomeDate}, environment : {sE1},
      my_deck : {sX, sY}, my_deck_type : {sT1, sT2}, opponent_deck : {sX, sY},
      opponent_deck_type : {sT1}, first_second : {FIRST, SECOND}, result : {WIN, LOSS},
      finish_turn : {<< DefaultFinishTurn >>}, memo : {NAN_TEXT} ]

\* rows for the matchups: three archetypes, a deck name of one space, and a result
\* cell left blank (loaded as 'nan')
MatchupRows ==
    [ season : {sS1}, date : {SomeDate}, environment : {sE1},
      my_deck : {sX, sY}, my_deck_type : {sT1}, opponent_deck : {sX, sY, sZ, sBlank},
      opponent_deck_type : {sT1}, first_second : {FIRST}, result : {WIN, LOSS, NAN_TEXT},
      finish_turn : {<< DefaultFinishTurn >>}, memo : {NAN_TEXT} ]

\* rows for the finish turns: the turn is missing, 2 or 5
TurnRows ==
    [ season : {sS1}, date : {SomeDate}, environment : {sE1},
      my_deck : {sX, sY}, my_deck_type : {sT1}, opponent_deck : {sX, sY},
      opponent_deck_type : {sT1}, first_second : {FIRST}, result : {WIN, LOSS},
      finish_turn : {NA, << 2 >>, << 5 >>}, memo : {NAN_TEXT} ]

\* rows for the order of the matchup table: two opponents, and opponent types that
\* include the label of the "全タイプ" row itself
TypeRows ==
    [ season : {sS1}, date : {SomeDate}, environment : {sE1},
      my_deck : {sX}, my_deck_type : {sT1}, opponent_deck : {sY, sZ},
      opponent_deck_type : {sT1, sT2, ALL_TYPES_PLACEHOLDER}, first_second : {FIRST},
      result : {WIN, LOSS}, finish_turn : {<< DefaultFinishTurn >>}, memo : {NAN_TEXT} ]

\* rows for the archetype names: a name may be blank in the sheet (loaded as 'nan'),
\* the text 'NAN', which the parser leaves alone, or a single space
NameRows ==
    [ season : {sS1}, date : {SomeDate}, environment : {sE1},
      my_deck : {sX, sY, sNaNCaps}, my_deck_type : {sT1},
      opponent_deck : {sX, sBlank, EMPTY_TEXT, sNaNCaps}, opponent_deck_type : {sT1},
      first_second : {FIRST}, result : {WIN}, finish_turn : {<< DefaultFinishTurn >>},
      memo : {EMPTY_TEXT} ]

\* rows for the type lists: two seasons, and a type may be blank in the sheet (loaded
\* as 'nan') or the text 'NAN'
KindRows ==
    [ season : {sS1, sS2}, date : {SomeDate}, environment : {sE1},
      my_deck : {sX, sY}, my_deck_type : {sT1, EMPTY_TEXT},
      opponent_deck : {sX, sY}, opponent_deck_type : {sT2, sNaNCaps},
      first_second : {FIRST}, result : {WIN}, finish_turn : {<< DefaultFinishTurn >>},
      memo : {EMPTY_TEXT} ]

\* a finish_turn cell holding 2.5
HalfTurn == << 5, 2 >>

\* rows of a worksheet as another writer may leave them: a date or a finish turn that
\* does not parse, a negative or fractional finish turn, and opponent names that are
\* padded, blank, of spaces only, or the text 'NAN'
RawRows ==
    [ season : {sS1}, date : {SomeDate, sBadText}, environment : {sE1},
      my_deck : {sX}, my_deck_type : {sT1}, opponent_deck : {sY},
      opponent_deck_type : {sT1}, first_second : {FIRST}, result : {WIN},
      finish_turn : {<< >>, << DefaultFinishTurn >>, << -1 >>, HalfTurn, sBadText},
      memo : {EMPTY_TEXT} ]
    \cup
    [ season : {sS1}, date : {SomeDate}, environment : {sE1},
      my_deck : {sX}, my_deck_type : {sT1},
      opponent_deck : {sPaddedY, sBlank, EMPTY_TEXT, sNaNCaps, NAN_TEXT},
      opponent_deck_type : {sT1}, first_second : {FIRST}, result : {WIN},
      finish_turn : {<< DefaultFinishTurn >>}, memo : {EMPTY_TEXT} ]

\* the tables of at most n rows over a set of rows, as load_data returns them
TablesOver(rows, n) ==
    UNION { { normalize_rows(t) : t \in [1..k -> rows] } : k \in 0..n }

\* focus decks and focus types a query may name
QueryDecks == {sX, sY, sZ, sBlank}

QueryTypes == {ALL_TYPES_PLACEHOLDER, sT1, sT2}

InitQuery(tables) ==
    /\ worksheet = EmptySheet
    /\ df \in tables
    /\ session = DefaultSession
    /\ df_for_analysis = << >>
    /\ screen = BlankScreen

InitOverall == InitQuery(TablesOver(OverallRows, MaxOverallRows))

InitMatchup == InitQuery(TablesOver(MatchupRows, MaxMatchupRows))

InitTurns == InitQuery(TablesOver(TurnRows, MaxTurnRows))

InitTypes == InitQuery(TablesOver(TypeRows, MaxTypeRows))

InitNames == InitQuery(TablesOver(NameRows, MaxNameRows))

InitKinds == InitQuery(TablesOver(KindRows, MaxKindRows))

\* display_general_deck_performance(df)
QueryGeneral ==
    /\ screen.branch = "none"
    /\ LET general == display_general_deck_performance(df)
       IN  screen' = [ branch |-> "general", message |-> general.message,
                       archetypes |-> get_all_analyzable_deck_names(df),
                       general |-> general.table, focus |-> NoFocus ]
    /\ df_for_analysis' = df
    /\ UNCHANGED << worksheet, df, session >>

\* the focus deck branch of show_analysis_section(df) for a focus deck and type
QueryFocus ==
    /\ screen.branch = "none"
    /\ \E deck \in QueryDecks, type \in QueryTypes :
          LET focus == focus_deck_analysis(df, deck, type)
          IN  /\ session' = [session EXCEPT !.focus_deck = deck, !.focus_type = type]
              /\ screen' = [ branch |-> "focus", message |-> focus.message,
                             archetypes |-> get_all_analyzable_deck_names(df),
                             general |-> << >>, focus |-> focus ]
    /\ df_for_analysis' = df
    /\ UNCHANGED << worksheet, df >>

NextQuery ==
    \/ QueryGeneral
    \/ QueryFocus

SpecOverall == InitOverall /\ [][NextQuery]_vars

SpecMatchup == InitMatchup /\ [][NextQuery]_vars

SpecTurns == InitTurns /\ [][NextQuery]_vars

SpecTypes == InitTypes /\ [][NextQuery]_vars

SpecNames == InitNames /\ [][NextQuery]_vars

\* seasons and decks the type selectboxes of the input form may be asked for
InputSeasons == {sS1, sS2, NEW_ENTRY_LABEL}

InputDecks == {sX, sY, sZ, NEW_ENTRY_LABEL}

\* line 385: the options of the focus type selectbox for a focus deck
QueryFocusTypes ==
    /\ screen.branch = "none"
    /\ \E deck \in QueryDecks :
          screen' = [ branch |-> "focus_types", deck |-> deck,
                      options |-> get_all_types_for_archetype(df, deck) ]
    /\ df_for_analysis' = df
    /\ UNCHANGED << worksheet, df, session >>

\* lines 684 and 696: the options of a type selectbox of the input form
QueryInputTypes ==
    /\ screen.branch = "none"
    /\ \E season \in InputSeasons, deck \in InputDecks :
          screen' = [ branch |-> "input_types", season |-> season, deck |-> deck,
                      options |-> get_types_for_deck_and_season_input(df, season, deck) ]
    /\ UNCHANGED << worksheet, df, session, df_for_analysis >>

NextKinds ==
    \/ QueryFocusTypes
    \/ QueryInputTypes

SpecKinds == InitKinds /\ [][NextKinds]_vars

\* a worksheet with the header of COLUMNS and at most MaxRawRows raw rows
InitRaw ==
    /\ worksheet \in { [header |-> COLUMNS, rows |-> rows] :
                          rows \in UNION { [1..k -> RawRows] : k \in 0..MaxRawRows } }
    /\ df = << >>
    /\ session = DefaultSession
    /\ df_for_analysis = << >>
    /\ screen = BlankScreen

\* the page is opened and the Google Sheets calls of load_data go through
RerunRead ==
    /\ screen.branch = "none"
    /\ ScriptRun(worksheet, session, "ok")
    /\ UNCHANGED worksheet

SpecRaw == InitRaw /\ [][RerunRead]_vars

\* the page is opened and load_data fails: a Google Sheets call fails, or the
\* normalization raises
RerunFailed ==
    /\ screen.branch = "none"
    /\ \E outcome \in LoadOutcomes :
          /\ outcome # "ok" \/ astype_Int64_raises(sheet_cells(worksheet))
          /\ ScriptRun(worksheet, session, outcome)
    /\ UNCHANGED worksheet

SpecFailed == InitRaw /\ [][RerunFailed]_vars

\* COLUMNS without the columns of a set
WithoutColumns(missing) == SelectSeq(COLUMNS, LAMBDA col : col \notin missing)

\* header rows a sheet may have: the header of COLUMNS, headers of an older layout that
\* lack columns, and the columns in another order
SheetHeaders ==
    { COLUMNS, WithoutColumns({"memo"}), WithoutColumns({"environment"}),
      WithoutColumns({"date", "finish_turn"}),
      << "memo" >> \o WithoutColumns({"memo"}) }

\* rows of such a sheet: with and without a memo
ColumnRows ==
    [ season : {sS1}, date : {SomeDate}, environment : {sE1},
      my_deck : {sX}, my_deck_type : {sT1}, opponent_deck : {sY},
      opponent_deck_type : {sT1}, first_second : {FIRST}, result : {WIN},
      finish_turn : {<< DefaultFinishTurn >>}, memo : {EMPTY_TEXT, sZ} ]

InitColumns ==
    /\ worksheet \in { [header |-> header, rows |-> rows] :
                          header \in SheetHeaders,
                          rows \in UNION { [1..k -> ColumnRows] : k \in 0..MaxColumnRows } }
    /\ df = << >>
    /\ session = DefaultSession
    /\ df_for_analysis = << >>
    /\ screen = BlankScreen

\* line 620: df = load_data(SPREADSHEET_ID, WORKSHEET_NAME), with what the Google
\* Sheets calls did and the columns of the DataFrame returned
LoadSheet ==
    /\ screen.branch = "none"
    /\ \E outcome \in LoadOutcomes :
          /\ df' = load_data(worksheet, outcome)
          /\ screen' = [ branch |-> "loaded", outcome |-> outcome,
                          columns |-> load_data_columns(worksheet, outcome) ]
    /\ UNCHANGED << worksheet, session, df_for_analysis >>

SpecColumns == InitColumns /\ [][LoadSheet]_vars

\* st.session_state of the input widgets when the button is pressed: a selectbox is on
\* the new-entry label or on an option, a text input is empty or filled (the season
\* also with the text of the new-entry label), inp_first_second and inp_result are
\* not set yet or on their second option
FormStates ==
    [ inp_season_select : {NEW_ENTRY_LABEL, sS1}, inp_season_new : {EMPTY_TEXT, NEW_ENTRY_LABEL},
      inp_date : {SomeDate},
      inp_environment_select : {NEW_ENTRY_LABEL, sE1}, inp_environment_new : {EMPTY_TEXT, sE2},
      inp_my_deck : {NEW_ENTRY_LABEL, sX}, inp_my_deck_new : {EMPTY_TEXT, sY},
      inp_my_deck_type : {NEW_ENTRY_LABEL}, inp_my_deck_type_new : {EMPTY_TEXT, sT1},
      inp_opponent_deck : {NEW_ENTRY_LABEL}, inp_opponent_deck_new : {EMPTY_TEXT, sY},
      inp_opponent_deck_type : {NEW_ENTRY_LABEL}, inp_opponent_deck_type_new : {EMPTY_TEXT, sT2},
      inp_first_second : {EMPTY_TEXT, SECOND}, inp_result : {EMPTY_TEXT, LOSS},
      inp_finish_turn : {NA, << DefaultFinishTurn >>}, inp_memo : {EMPTY_TEXT, sZ} ]

\* rows the worksheet holds before the button is pressed
StoredRows ==
    [ season : {sS1}, date : {SomeDate}, environment : {sE1},
      my_deck : {sX}, my_deck_type : {sT1}, opponent_deck : {sY},
      opponent_deck_type : {sT1}, first_second : {FIRST}, result : {WIN},
      finish_turn : {<< DefaultFinishTurn >>}, memo : {EMPTY_TEXT, sZ} ]

\* an empty worksheet, or one with a header that is or is not the one of COLUMNS and
\* at most MaxStoredRows rows
InitSubmit ==
    /\ worksheet \in {EmptySheet}
          \cup { [header |-> header, rows |-> rows] :
                   header \in {COLUMNS, WithoutColumns({"memo"})},
                   rows \in UNION { [1..k -> StoredRows] : k \in 0..MaxStoredRows } }
    /\ df = << >>
    /\ session = DefaultSession
    /\ df_for_analysis = << >>
    /\ screen = BlankScreen

\* what the run of the button has shown
submit_screen(form, record, errors, result, shown) ==
    [ branch |-> "submitted", form |-> form, record |-> record, error_messages |-> errors,
      save_called |-> result.save_called, saved |-> result.saved.ok,
      analysis |-> shown.screen ]

\* the run that follows the button: after a successful save st.rerun() loads the
\* worksheet again (line 769, line 620), otherwise the run goes on to line 774
submit_run(form, record, errors, result, loaded, shown) ==
    /\ worksheet' = result.saved.worksheet
    /\ df' = loaded
    /\ session' = shown.session
    /\ df_for_analysis' = shown.df_for_analysis
    /\ screen' = submit_screen(form, record, errors, result, shown)

submit_loaded(form, record, errors, result, loaded) ==
    submit_run(form, record, errors, result, loaded, show_analysis_section(loaded, session))

submit_record(form, record, errors, saved, outcome) ==
    submit_loaded(form, record, errors, submit_result(worksheet, record, errors, saved),
                  load_data(submit_result(worksheet, record, errors, saved).saved.worksheet,
                            outcome))

\* the user presses '戦績を記録' (lines 715-772)
Submit ==
    /\ screen.branch = "none"
    /\ \E form \in FormStates, saved \in SaveOutcomes, outcome \in {"ok", "exception"} :
          submit_record(form, new_record_data(form), error_messages(new_record_data(form)),
                        saved, outcome)

SpecSubmit == InitSubmit /\ [][Submit]_vars

(***************************************************************************)
(* The statistics as the specification defines them (spec 4.4), by         *)
(* counting the rows of the table; type is ALL_TYPES_PLACEHOLDER when the  *)
(* archetype is not narrowed to a type.                                    *)
(***************************************************************************)
AsMine(T, A, type) ==
    { i \in DOMAIN T : /\ T[i].my_deck = A
                       /\ (type = ALL_TYPES_PLACEHOLDER \/ T[i].my_deck_type = type) }

AsOpponent(T, A, type) ==
    { i \in DOMAIN T : /\ T[i].opponent_deck = A
                       /\ (type = ALL_TYPES_PLACEHOLDER \/ T[i].opponent_deck_type = type) }

ExpectedAppearances(T, A, type) ==
    Cardinality(AsMine(T, A, type)) + Cardinality(AsOpponent(T, A, type))

ExpectedWins(T, A, type) ==
    Cardinality({i \in AsMine(T, A, type) : T[i].result = WIN})
        + Cardinality({i \in AsOpponent(T, A, type) : T[i].result = LOSS})

Flip(v, a, b) == IF v = a THEN b ELSE IF v = b THEN a ELSE v

\* the games of the archetype, each a row seen from one side: a row of a mirror match
\* is two games, one for each side
GamesOf(T, A, type) ==
    {<<"my", i>> : i \in AsMine(T, A, type)} \cup {<<"opponent", i>> : i \in AsOpponent(T, A, type)}

\* the seat of the archetype in a game, and whether it won the game
SeatIn(T, g) ==
    IF g[1] = "my" THEN T[g[2]].first_second ELSE Flip(T[g[2]].first_second, FIRST, SECOND)

WonIn(T, g) ==
    IF g[1] = "my" THEN T[g[2]].result = WIN ELSE T[g[2]].result = LOSS

\* the games in which the archetype had the seat `seat`
WentAs(T, A, type, seat) == {g \in GamesOf(T, A, type) : SeatIn(T, g) = seat}

\* the games among `games` the archetype won
WonAmong(T, games) == {g \in games : WonIn(T, g)}

\* the statistics shown by the last run, one record per archetype and type shown:
\* the rows of the summary, or the statistics of the focus deck
ShownStats ==
    IF screen.branch = "general"
    THEN { [deck |-> screen.general[k].deck, type |-> ALL_TYPES_PLACEHOLDER,
            stats |-> screen.general[k]] : k \in DOMAIN screen.general }
    ELSE IF screen.branch = "focus" /\ screen.message # "focus_no_records"
    THEN { [deck |-> session.focus_deck, type |-> session.focus_type,
            stats |-> screen.focus.stats] }
    ELSE {}

\* spec 8, scenario 2: {X vs Y, WIN} and {Y vs X, WIN}
IsScenario2(T) ==
    /\ Len(T) = 2
    /\ T[1].my_deck = sX /\ T[1].opponent_deck = sY /\ T[1].result = WIN
    /\ T[2].my_deck = sY /\ T[2].opponent_deck = sX /\ T[2].result = WIN

\* C1: the wins shown for an archetype are its WIN rows as my_deck plus its LOSS rows
\* as opponent_deck, its appearances are its rows as my_deck plus its rows as
\* opponent_deck, every archetype of the table is in the summary, and in scenario 2
\* X has 2 appearances, 1 win and a win rate of 50.
C1_WinsAndAppearances ==
    /\ \A s \in ShownStats :
          /\ s.stats.wins = ExpectedWins(df_for_analysis, s.deck, s.type)
          /\ s.stats.appearances = ExpectedAppearances(df_for_analysis, s.deck, s.type)
          /\ (IsScenario2(df_for_analysis) /\ s.deck = sX /\ s.type = ALL_TYPES_PLACEHOLDER)
                => /\ s.stats.appearances = 2
                   /\ s.stats.wins = 1
                   /\ s.stats.win_rate = Rat(50, 1)
    /\ screen.branch = "general"
          => {s.deck : s \in ShownStats} = Range(get_all_analyzable_deck_names(df_for_analysis))

C1_Witness ==
    /\ screen.branch = "general"
    /\ IsScenario2(df_for_analysis)
    /\ \E s \in ShownStats :
          /\ s.deck = sX
          /\ s.stats.appearances = 2 /\ s.stats.wins = 1 /\ s.stats.win_rate = Rat(50, 1)

\* the table recorded from the other side: decks and types swapped, result and seat
\* flipped
Swapped(T) ==
    [ i \in DOMAIN T |->
        [ T[i] EXCEPT !.my_deck = T[i].opponent_deck,
                      !.my_deck_type = T[i].opponent_deck_type,
                      !.opponent_deck = T[i].my_deck,
                      !.opponent_deck_type = T[i].my_deck_type,
                      !.result = Flip(T[i].result, WIN, LOSS),
                      !.first_second = Flip(T[i].first_second, FIRST, SECOND) ] ]

\* the win rates the two branches compute on a table for the archetype and type of s
WinRatesOn(T, s) ==
    IF screen.branch = "general"
    THEN LET table == display_general_deck_performance(T).table
         IN  {table[k].win_rate : k \in {j \in DOMAIN table : table[j].deck = s.deck}}
    ELSE {focus_deck_analysis(T, s.deck, s.type).stats.win_rate}

\* C2: on the table recorded from the other side the overall win rate of every
\* archetype is the one computed on the table itself.
C2_SwapSymmetry ==
    \A s \in ShownStats : WinRatesOn(Swapped(df_for_analysis), s) = {s.stats.win_rate}

C2_Witness ==
    /\ screen.branch = "general"
    /\ \E s \in ShownStats :
          /\ s.stats.wins > 0 /\ s.stats.losses > 0
          /\ AsOpponent(df_for_analysis, s.deck, ALL_TYPES_PLACEHOLDER) = {}
          /\ WinRatesOn(Swapped(df_for_analysis), s) = {s.stats.win_rate}

\* C5: wins + losses = appearances and 0 <= wins <= appearances, for every archetype
\* of the summary and for the focus deck, narrowed to a type or not.
C5_WinsPlusLosses ==
    \A s \in ShownStats :
        /\ s.stats.wins + s.stats.losses = s.stats.appearances
        /\ 0 <= s.stats.wins
        /\ s.stats.wins <= s.stats.appearances
        /\ s.stats.appearances = ExpectedAppearances(df_for_analysis, s.deck, s.type)

C5_Witness ==
    /\ screen.branch = "focus"
    /\ \E s \in ShownStats :
          /\ s.type # ALL_TYPES_PLACEHOLDER
          /\ s.stats.wins > 0 /\ s.stats.losses > 0
          /\ s.stats.appearances < ExpectedAppearances(df_for_analysis, s.deck,
                                                       ALL_TYPES_PLACEHOLDER)

\* C10: the games an archetype went first in are its rows as my_deck with FIRST and
\* its rows as opponent_deck with SECOND (and the other way round for second), its
\* wins among them are WIN rows as my_deck and LOSS rows as opponent_deck, and the
\* rate of a seat is absent exactly when it has no game and wins/games*100 otherwise.
C10_FirstSecondSplit ==
    \A s \in ShownStats :
        LET first == WentAs(df_for_analysis, s.deck, s.type, FIRST)
            second == WentAs(df_for_analysis, s.deck, s.type, SECOND)
            won_first == WonAmong(df_for_analysis, first)
            won_second == WonAmong(df_for_analysis, second)
        IN  /\ s.stats.games_first = Cardinality(first)
            /\ s.stats.games_second = Cardinality(second)
            /\ s.stats.wins_first = Cardinality(won_first)
            /\ s.stats.wins_second = Cardinality(won_second)
            /\ (s.stats.win_rate_first = None) <=> (first = {})
            /\ (s.stats.win_rate_second = None) <=> (second = {})
            /\ first # {}
                  => s.stats.win_rate_first = Percent(Cardinality(won_first), Cardinality(first))
            /\ second # {}
                  => s.stats.win_rate_second
                        = Percent(Cardinality(won_second), Cardinality(second))

C10_Witness ==
    /\ screen.branch = "general"
    /\ \E s \in ShownStats :
          /\ AsMine(df_for_analysis, s.deck, ALL_TYPES_PLACEHOLDER) = {}
          /\ s.stats.games_first = 2
          /\ s.stats.wins_first = 1
          /\ s.stats.win_rate_first = Rat(50, 1)
          /\ s.stats.win_rate_second = None

AllTypesRows(matchup, B) ==
    { matchup[k] : k \in { j \in DOMAIN matchup : /\ matchup[j].opponent = B
                                                  /\ matchup[j].type = ALL_TYPES_PLACEHOLDER } }

\* the ALL TYPES win rates of A against B in the matchup table of A
AllTypesRates(T, A, B) ==
    { row.win_rate :
        row \in AllTypesRows(focus_deck_analysis(T, A, ALL_TYPES_PLACEHOLDER).matchup, B) }

\* the rows of the table in which A and B played each other
PlayedEachOther(T, A, B) ==
    { i \in DOMAIN T : \/ T[i].my_deck = A /\ T[i].opponent_deck = B
                       \/ T[i].my_deck = B /\ T[i].opponent_deck = A }

\* C3: for two distinct archetypes that played each other, the ALL TYPES win rate of
\* A against B and the one of B against A add up to 100, in the matchup tables of the
\* focus deck branch and in the rates the summary loop averages.
C3_MatchupZeroSum ==
    screen.branch = "focus"
      => LET A == session.focus_deck
             archetypes == Range(get_all_analyzable_deck_names(df_for_analysis))
         IN  \A B \in archetypes \ {A} :
                (A \in archetypes /\ PlayedEachOther(df_for_analysis, A, B) # {})
                  => /\ \A a \in AllTypesRates(df_for_analysis, A, B),
                           b \in AllTypesRates(df_for_analysis, B, A) :
                          a.some /\ b.some /\ RatAdd(a, b) = Rat(100, 1)
                     /\ LET a == matchup_win_rate_general(df_for_analysis, A, B)
                            b == matchup_win_rate_general(df_for_analysis, B, A)
                        IN  a.some /\ b.some /\ RatAdd(a, b) = Rat(100, 1)

\* the opponent archetypes A has faced: the other archetypes of the table it played
FacedOpponents(T, A) ==
    { B \in Range(get_all_analyzable_deck_names(T)) \ {A} : PlayedEachOther(T, A, B) # {} }

\* the mean of the ALL TYPES win rates the matchup table of A reports for opps
MeanOfReportedRates(T, A, opps) ==
    LET order == SeqOfSet(opps)
    IN  Mean([ i \in DOMAIN order |->
                 CHOOSE w \in AllTypesRates(T, A, order[i]) : TRUE ])

\* C4: the average matchup win rate of an archetype in the summary is the unweighted
\* mean, over the opponent archetypes it has faced, of the ALL TYPES win rate its
\* matchup table reports against that opponent, and is absent when it faced none.
C4_AverageMatchupWinRate ==
    screen.branch = "general"
      => \A k \in DOMAIN screen.general :
            LET A == screen.general[k].deck
                opps == FacedOpponents(df_for_analysis, A)
            IN  IF opps = {}
                THEN screen.general[k].avg_matchup_wr = None
                ELSE /\ \A B \in opps : Cardinality(AllTypesRates(df_for_analysis, A, B)) = 1
                     /\ screen.general[k].avg_matchup_wr
                            = MeanOfReportedRates(df_for_analysis, A, opps)

\* what the aggregation yields on an empty table: no archetype, no row, no statistics
EmptyAggregation(T) ==
    /\ get_all_analyzable_deck_names(T) = << >>
    /\ display_general_deck_performance(T).table = << >>
    /\ \A A \in QueryDecks, type \in QueryTypes :
          /\ get_all_types_for_archetype(T, A) = << ALL_TYPES_PLACEHOLDER >>
          /\ focus_deck_analysis(T, A, type).stats = NoFocusStats
          /\ focus_deck_analysis(T, A, type).matchup = << >>
          /\ avg_matchup_wr_deck_a(T, A) = None

\* C7: when the table to analyse is empty, because the loaded table is empty or
\* because the filters excluded every row, there is no archetype, the aggregation
\* yields no row and zero or absent statistics, and the run shows nothing but a
\* message, which alone tells the two cases apart.
C7_EmptyTable ==
    /\ (screen.branch # "none" /\ IsEmpty(df_for_analysis))
          => /\ EmptyAggregation(df_for_analysis)
             /\ screen.branch = "empty"
             /\ [screen EXCEPT !.message = ""] = [BlankScreen EXCEPT !.branch = "empty"]
             /\ screen.message = IF IsEmpty(df) THEN "no_records_yet" ELSE "filter_no_match"
    /\ screen.branch = "empty" => IsEmpty(df_for_analysis)

C7_Witness ==
    /\ ~IsEmpty(df)
    /\ IsEmpty(df_for_analysis)
    /\ SeasonIsSelected(session.season)
    /\ session.environments # {}
    /\ screen.branch = "empty"
    /\ screen.message = "filter_no_match"
    /\ screen.archetypes = << >>

\* the rows of the loaded table the selected season and environments keep
KeptRows ==
    { i \in DOMAIN df :
        /\ SeasonIsSelected(session.season) => df[i].season = session.season
        /\ session.environments # {} => df[i].environment \in session.environments }

\* C8: the table handed to the aggregation holds exactly the rows of the loaded table
\* whose season is the selected one (when one is selected) and whose environment is
\* among the selected ones (when any is), unchanged and in their original order; with
\* no season and no environment selected it is the loaded table.
C8_FilteredTable ==
    screen.branch # "none"
      => /\ Len(df_for_analysis) = Cardinality(KeptRows)
         /\ \A j \in DOMAIN df_for_analysis :
               /\ df_for_analysis[j].index + 1 \in KeptRows
               /\ df_for_analysis[j] = df[df_for_analysis[j].index + 1]
         /\ \A j, k \in DOMAIN df_for_analysis :
               j < k => df_for_analysis[j].index < df_for_analysis[k].index
         /\ (~SeasonIsSelected(session.season) /\ session.environments = {})
               => df_for_analysis = df

C8_Witness ==
    /\ screen.branch \in {"general", "focus"}
    /\ SeasonIsSelected(session.season)
    /\ session.environments # {}
    /\ Len(df) = 2
    /\ df_for_analysis = << df[2] >>
    /\ df[1].season = session.season
    /\ df[1].environment \notin session.environments

\* C9: filtering the table handed to the aggregation again, with the same season and
\* environments, returns it unchanged, and so does a whole run on it.
C9_FilterIdempotent ==
    screen.branch # "none"
      => /\ filter_for_analysis(df_for_analysis, session.season, session.environments)
                = df_for_analysis
         /\ show_analysis_section(df_for_analysis, session).df_for_analysis
                = df_for_analysis

C9_Witness ==
    /\ screen.branch \in {"general", "focus"}
    /\ SeasonIsSelected(session.season)
    /\ session.environments # {}
    /\ Len(df_for_analysis) = 1
    /\ Len(df) = 2
    /\ filter_for_analysis(df, session.season, session.environments) = df_for_analysis
    /\ filter_for_analysis(df_for_analysis, session.season, session.environments)
            = df_for_analysis

\* the winning games of the archetype whose finish turn is present
WonWithTurn(T, A, type) ==
    { g \in GamesOf(T, A, type) : WonIn(T, g) /\ ~IsNA(T[g[2]].finish_turn) }

\* the sum of the finish turns of a set of games
RECURSIVE SumOfTurns(_, _)
SumOfTurns(T, games) ==
    IF games = {} THEN 0
    ELSE LET g == CHOOSE x \in games : TRUE
         IN  T[g[2]].finish_turn[1] + SumOfTurns(T, games \ {g})

\* C11: the average finish turn on win of the focus deck is the arithmetic mean of the
\* finish turns that are present on its winning rows of both sides (WIN as my_deck,
\* LOSS as opponent_deck), and is absent when no winning row has a finish turn.
C11_AverageWinTurn ==
    (screen.branch = "focus" /\ screen.message # "focus_no_records")
      => LET won == WonWithTurn(df_for_analysis, session.focus_deck, session.focus_type)
             shown == screen.focus.stats.avg_win_finish_turn
         IN  /\ (won = {}) <=> (shown = None)
             /\ won # {} => shown = Rat(SumOfTurns(df_for_analysis, won), Cardinality(won))
             /\ shown # Zero

C11_Witness ==
    /\ screen.branch = "focus"
    /\ session.focus_deck = sX
    /\ Len(df_for_analysis) = 2
    /\ df_for_analysis[1].my_deck = sX /\ df_for_analysis[1].opponent_deck = sY
    /\ df_for_analysis[1].result = WIN /\ df_for_analysis[1].finish_turn = << 2 >>
    /\ df_for_analysis[2].my_deck = sY /\ df_for_analysis[2].opponent_deck = sX
    /\ df_for_analysis[2].result = LOSS /\ df_for_analysis[2].finish_turn = << 5 >>
    /\ screen.focus.stats.avg_win_finish_turn = Rat(7, 2)

\* the opponent archetypes named by the rows of the matchup table on screen
MatchupOpponents ==
    { screen.focus.matchup[k].opponent : k \in DOMAIN screen.focus.matchup }

\* C12: the matchup table of the focus archetype has no row whose opponent archetype is
\* the focus archetype itself, and no row whose opponent name is empty or the text
\* 'nan', on every table, mirror matches (my_deck = opponent_deck) included.
C12_NoSelfPairNoAbsentOpponent ==
    (screen.branch = "focus" /\ screen.message # "focus_no_records")
      => /\ session.focus_deck \notin MatchupOpponents
         /\ \A name \in MatchupOpponents : name # << >> /\ Lower(name) # NAN_TEXT

\* the archetype and the type on the other side of a game
OpponentIn(T, g) ==
    IF g[1] = "my" THEN T[g[2]].opponent_deck ELSE T[g[2]].my_deck

OpponentTypeIn(T, g) ==
    IF g[1] = "my" THEN T[g[2]].opponent_deck_type ELSE T[g[2]].my_deck_type

\* the games of the focus deck a row of its matchup table is about
GamesOfRow(T, A, type, row) ==
    { g \in GamesOf(T, A, type) :
        /\ OpponentIn(T, g) = row.opponent
        /\ row.type # ALL_TYPES_PLACEHOLDER => OpponentTypeIn(T, g) = row.type }

\* C13: in every row of the matchup table the games played are the games of both
\* directions, the 'first' figure counts the games in which the focus deck went first
\* (FIRST when it is my_deck, SECOND when it is opponent_deck), and the wins of the
\* focus deck, overall and in each seat, are WIN rows in the first direction and LOSS
\* rows in the second.
C13_MatchupSplit ==
    (screen.branch = "focus" /\ screen.message # "focus_no_records")
      => \A k \in DOMAIN screen.focus.matchup :
            LET row == screen.focus.matchup[k]
                games == GamesOfRow(df_for_analysis, session.focus_deck, session.focus_type, row)
                first == {g \in games : SeatIn(df_for_analysis, g) = FIRST}
                second == {g \in games : SeatIn(df_for_analysis, g) = SECOND}
            IN  /\ row.games = Cardinality(games)
                /\ row.games_first = Cardinality(first)
                /\ row.wins = Cardinality(WonAmong(df_for_analysis, games))
                /\ row.win_rate_first
                     = RateOrElse(Cardinality(WonAmong(df_for_analysis, first)),
                                  Cardinality(first), None)
                /\ row.win_rate_second
                     = RateOrElse(Cardinality(WonAmong(df_for_analysis, second)),
                                  Cardinality(second), None)

\* focus deck Y went first and won twice against X, once recorded by each side
C13_Witness ==
    /\ screen.branch = "focus"
    /\ session.focus_deck = sY
    /\ session.focus_type = ALL_TYPES_PLACEHOLDER
    /\ Len(df_for_analysis) = 2
    /\ df_for_analysis[1].my_deck = sX /\ df_for_analysis[1].opponent_deck = sY
    /\ df_for_analysis[1].my_deck_type = sT2
    /\ df_for_analysis[1].first_second = SECOND /\ df_for_analysis[1].result = LOSS
    /\ df_for_analysis[2].my_deck = sY /\ df_for_analysis[2].opponent_deck = sX
    /\ df_for_analysis[2].first_second = FIRST /\ df_for_analysis[2].result = WIN
    /\ \E k \in DOMAIN screen.focus.matchup :
          /\ screen.focus.matchup[k].opponent = sX
          /\ screen.focus.matchup[k].type = sT2
          /\ screen.focus.matchup[k].games = 1
          /\ screen.focus.matchup[k].games_first = 1
          /\ screen.focus.matchup[k].win_rate_first = Rat(100, 1)
          /\ screen.focus.matchup[k].win_rate_second = None
    /\ \E k \in DOMAIN screen.focus.matchup :
          /\ screen.focus.matchup[k].opponent = sX
          /\ screen.focus.matchup[k].type = ALL_TYPES_PLACEHOLDER
          /\ screen.focus.matchup[k].games = 2
          /\ screen.focus.matchup[k].games_first = 2
          /\ screen.focus.matchup[k].wins = 2

\* the positions of the rows of one opponent archetype in a matchup table
RowsOfOpponent(matchup, B) == { k \in DOMAIN matchup : matchup[k].opponent = B }

\* the games of the focus deck against an opponent archetype, and those of them in
\* which the opponent played the type `label`
GamesAgainst(T, A, type, B) == { g \in GamesOf(T, A, type) : OpponentIn(T, g) = B }

GamesAgainstType(T, A, type, B, label) ==
    { g \in GamesAgainst(T, A, type, B) : OpponentTypeIn(T, g) = label }

\* C14: the matchup table is sorted by opponent archetype; the first row of every
\* opponent archetype is its ALL TYPES row (the games against all its types), and the
\* rows after it are its type-specific rows, one per type faced, in lexicographic
\* order of the type label, whatever the type labels are.
C14_MatchupTableOrder ==
    (screen.branch = "focus" /\ screen.message # "focus_no_records")
      => LET matchup == screen.focus.matchup
             T == df_for_analysis
             A == session.focus_deck
             type == session.focus_type
         IN  /\ \A i, j \in DOMAIN matchup :
                   i < j => ~StrLess(matchup[j].opponent, matchup[i].opponent)
             /\ \A B \in MatchupOpponents :
                   LET group == RowsOfOpponent(matchup, B)
                       first == CHOOSE k \in group : \A m \in group : k <= m
                       rest == group \ {first}
                   IN  /\ matchup[first].type = ALL_TYPES_PLACEHOLDER
                       /\ matchup[first].games = Cardinality(GamesAgainst(T, A, type, B))
                       /\ \A k \in rest :
                             matchup[k].games
                               = Cardinality(GamesAgainstType(T, A, type, B, matchup[k].type))
                       /\ \A i, j \in rest :
                             i < j => StrLess(matchup[i].type, matchup[j].type)
                       /\ { matchup[k].type : k \in rest }
                            = { OpponentTypeIn(T, g) : g \in GamesAgainst(T, A, type, B) }

\* the summary has exactly one row for every archetype of the table
OneRowPerArchetype ==
    /\ { screen.general[k].deck : k \in DOMAIN screen.general }
         = Range(get_all_analyzable_deck_names(df_for_analysis))
    /\ \A i, j \in DOMAIN screen.general :
          screen.general[i].deck = screen.general[j].deck => i = j

\* the rows with an average matchup win rate come first, by decreasing average
DescendingByAverage ==
    \A i, j \in DOMAIN screen.general :
       i < j => LET a == screen.general[i].avg_matchup_wr
                    b == screen.general[j].avg_matchup_wr
                IN  /\ b.some => a.some
                    /\ (a.some /\ b.some) => ~RatLess(a, b)

\* C15 as stated: one row per archetype, by decreasing average matchup win rate, and
\* the rows without an average by decreasing overall win rate, then by decreasing
\* number of appearances.
C15_SummaryOrderWithFallback ==
    screen.branch = "general"
      => /\ OneRowPerArchetype
         /\ DescendingByAverage
         /\ \A i, j \in DOMAIN screen.general :
               LET a == screen.general[i]
                   b == screen.general[j]
               IN  (i < j /\ ~a.avg_matchup_wr.some /\ ~b.avg_matchup_wr.some)
                     => /\ ~RatLess(a.win_rate, b.win_rate)
                        /\ a.win_rate = b.win_rate => a.appearances >= b.appearances

\* C15, amended: one row per archetype, by decreasing average matchup win rate, and
\* the rows without an average last, in the order of the archetype names.
C15_SummaryOrder ==
    screen.branch = "general"
      => /\ OneRowPerArchetype
         /\ DescendingByAverage
         /\ \A i, j \in DOMAIN screen.general :
               LET a == screen.general[i]
                   b == screen.general[j]
               IN  (i < j /\ ~a.avg_matchup_wr.some /\ ~b.avg_matchup_wr.some)
                     => StrLess(a.deck, b.deck)

\* X lost to ' ' and Y beat ' ': ' ' has an average of 50, X and Y have none, and X
\* (0%) is listed before Y (100%)
C15_Witness ==
    /\ screen.branch = "general"
    /\ Len(screen.general) = 3
    /\ screen.general[1].deck = sBlank
    /\ screen.general[1].avg_matchup_wr = Rat(50, 1)
    /\ screen.general[2].deck = sX
    /\ screen.general[2].avg_matchup_wr = None
    /\ screen.general[2].win_rate = Zero
    /\ screen.general[3].deck = sY
    /\ screen.general[3].avg_matchup_wr = None
    /\ screen.general[3].win_rate = Rat(100, 1)

\* the values of my_deck and opponent_deck in the rows of a table
DeckCells(T) ==
    {T[i].my_deck : i \in DOMAIN T} \cup {T[i].opponent_deck : i \in DOMAIN T}

\* C16: the archetypes of a table are exactly the values of my_deck and opponent_deck
\* that are neither empty nor the text 'nan' in any letter case, listed in strictly
\* increasing lexicographic order (sorted, no duplicate).
C16_AllArchetypes ==
    screen.branch # "none"
      => /\ Range(screen.archetypes)
              = { d \in DeckCells(df_for_analysis) : d # EMPTY_TEXT /\ Lower(d) # NAN_TEXT }
         /\ \A i, j \in DOMAIN screen.archetypes :
               i < j => StrLess(screen.archetypes[i], screen.archetypes[j])

\* a table with the names X, ' ', 'NAN' and a blank cell has the archetypes ' ' and X
C16_Witness ==
    /\ screen.branch = "general"
    /\ Len(df_for_analysis) = 2
    /\ df_for_analysis[1].my_deck = sX /\ df_for_analysis[1].opponent_deck = NAN_TEXT
    /\ df_for_analysis[2].my_deck = sNaNCaps /\ df_for_analysis[2].opponent_deck = sBlank
    /\ screen.archetypes = << sBlank, sX >>

\* the types an archetype has in the rows `rows` of a table: its my_deck_type where it
\* is my_deck and its opponent_deck_type where it is opponent_deck, absent ones left out
TypesIn(T, rows, archetype) ==
    { t \in { T[i].my_deck_type : i \in { k \in rows : T[k].my_deck = archetype } }
              \cup { T[i].opponent_deck_type : i \in { k \in rows : T[k].opponent_deck = archetype } } :
        t # EMPTY_TEXT /\ Lower(t) # NAN_TEXT }

RowsOfSeason(T, season) == { i \in DOMAIN T : T[i].season = season }

\* the list is in strictly increasing lexicographic order
StrictlySorted(list) == \A i, j \in DOMAIN list : i < j => StrLess(list[i], list[j])

\* the types the last query had to list
QueriedTypes ==
    IF screen.branch = "focus_types"
    THEN TypesIn(df, DOMAIN df, screen.deck)
    ELSE TypesIn(df, RowsOfSeason(df, screen.season), screen.deck)

\* C17 as stated: the list returned is exactly the sorted types of the archetype, over
\* the whole table or over the rows of the season.
C17_TypesExactly ==
    (\/ screen.branch = "focus_types"
     \/ screen.branch = "input_types" /\ screen.season # NEW_ENTRY_LABEL
                                      /\ screen.deck # NEW_ENTRY_LABEL)
      => /\ Range(screen.options) = QueriedTypes
         /\ StrictlySorted(screen.options)

\* C17, amended: the list returned is the placeholder of the selectbox (ALL TYPES for
\* the focus type, the new-entry label for the input form) followed by the sorted
\* types of the archetype, over the whole table or over the rows of the season.
C17_PlaceholderThenTypes ==
    (\/ screen.branch = "focus_types"
     \/ screen.branch = "input_types" /\ screen.season # NEW_ENTRY_LABEL
                                      /\ screen.deck # NEW_ENTRY_LABEL)
      => /\ screen.options # << >>
         /\ screen.options[1] = IF screen.branch = "focus_types"
                                THEN ALL_TYPES_PLACEHOLDER ELSE NEW_ENTRY_LABEL
         /\ Range(Tail(screen.options)) = QueriedTypes
         /\ StrictlySorted(Tail(screen.options))

\* X has type t1 as my_deck in season S1 and type t2 as opponent_deck in season S2
C17_WitnessTable ==
    /\ Len(df) = 2
    /\ df[1].season = sS1 /\ df[1].my_deck = sX /\ df[1].my_deck_type = sT1
    /\ df[1].opponent_deck = sY /\ df[1].opponent_deck_type = sNaNCaps
    /\ df[2].season = sS2 /\ df[2].my_deck = sY /\ df[2].my_deck_type = NAN_TEXT
    /\ df[2].opponent_deck = sX /\ df[2].opponent_deck_type = sT2

C17_Witness ==
    /\ C17_WitnessTable
    /\ \/ /\ screen.branch = "focus_types"
          /\ screen.deck = sX
          /\ screen.options = << ALL_TYPES_PLACEHOLDER, sT1, sT2 >>
       \/ /\ screen.branch = "input_types"
          /\ screen.deck = sX /\ screen.season = sS2
          /\ screen.options = << NEW_ENTRY_LABEL, sT2 >>

\* the text columns of a table (string_cols, lines 119-120)
TextFields ==
    { "my_deck_type", "opponent_deck_type", "my_deck", "opponent_deck", "season", "memo",
      "first_second", "result", "environment" }

\* a raw text cell holds no value: nothing, blanks only, or 'nan' in any letter case
RawTextAbsent(cell) == Strip(cell) = EMPTY_TEXT \/ Lower(Strip(cell)) = NAN_TEXT

\* C18: whatever the raw rows are, the table load_data returns has one row per raw row;
\* a date or a finish turn that does not parse is absent in it, one that parses is
\* kept, and the text fields of the row are kept.
C18_MalformedFieldsDegrade ==
    screen.branch # "none"
      => /\ Len(df) = Len(worksheet.rows)
         /\ \A i \in DOMAIN df :
               LET raw == worksheet.rows[i]
               IN  /\ df[i].date = IF Len(raw.date) = 1 THEN raw.date ELSE NA
                   /\ Len(raw.finish_turn) # 1 => df[i].finish_turn = NA
                   /\ (Len(raw.finish_turn) = 1 /\ raw.finish_turn[1] >= 0)
                         => df[i].finish_turn = raw.finish_turn
                   /\ \A f \in TextFields :
                         ~RawTextAbsent(raw[f]) => Strip(df[i][f]) = Strip(raw[f])

\* C19: every finish turn of the table load_data returns is absent or an integer that
\* is not negative, and a raw finish turn that does not parse or is negative is absent
\* in its row.
C19_FinishTurnNonNegative ==
    screen.branch # "none"
      => /\ \A i \in DOMAIN df :
               \/ df[i].finish_turn = NA
               \/ Len(df[i].finish_turn) = 1 /\ df[i].finish_turn[1] >= 0
         /\ Len(df) = Len(worksheet.rows)
               => \A i \in DOMAIN df :
                     LET raw == worksheet.rows[i].finish_turn
                     IN  (Len(raw) # 1 \/ raw[1] < 0) => df[i].finish_turn = NA

\* C20: every text field of the table load_data returns is trimmed and is never the
\* text 'nan' in any letter case, and a raw cell that holds no value (nothing, blanks
\* only, 'nan' in any case) is the empty text in its row.
C20_TextFieldsTrimmed ==
    screen.branch # "none"
      => \A i \in DOMAIN df : \A f \in TextFields :
            /\ df[i][f] = Strip(df[i][f])
            /\ Lower(df[i][f]) # NAN_TEXT
            /\ (Len(df) = Len(worksheet.rows) /\ RawTextAbsent(worksheet.rows[i][f]))
                  => df[i][f] = EMPTY_TEXT

\* the columns of COLUMNS the header row of the worksheet does not name
MissingColumns == Range(COLUMNS) \ Range(worksheet.header)

\* the columns are the 11 canonical ones, in the canonical order
CanonicalColumns(columns) ==
    columns = << "season", "date", "environment", "my_deck", "my_deck_type",
                 "opponent_deck", "opponent_deck_type", "first_second", "result",
                 "finish_turn", "memo" >>

\* C21: on every path of load_data the table returned has the 11 canonical columns in
\* the canonical order, and a column missing from the sheet is absent in every row:
\* the empty text in a text column, no date, no finish turn.
C21_CanonicalColumns ==
    screen.branch = "loaded"
      => /\ CanonicalColumns(screen.columns)
         /\ \A i \in DOMAIN df : \A col \in MissingColumns :
               df[i][col] = IF col \in TextFields THEN EMPTY_TEXT ELSE NA

\* C22: after a run whose load failed (no client, spreadsheet or worksheet not found,
\* another exception of the calls or of the normalization) the table is empty, whatever
\* the sheet holds, and the run went on with it: the analysis section showed its
\* 'no records yet' message on an empty table.
C22_FailedLoadGivesEmptyTable ==
    screen.branch # "none"
      => /\ df = << >>
         /\ df_for_analysis = << >>
         /\ screen.branch = "empty"
         /\ screen.message = "no_records_yet"

\* the load failed on a sheet of two rows, the second with a finish turn of 2.5
C22_Witness ==
    /\ Len(worksheet.rows) = 2
    /\ worksheet.rows[1].finish_turn = << DefaultFinishTurn >>
    /\ worksheet.rows[2].finish_turn = HalfTurn
    /\ df = << >>
    /\ screen.branch = "empty"

\* the six required texts of a record are not empty and not the new-entry label, and
\* its finish turn is present
RecordComplete(record) ==
    /\ \A col \in {"season", "my_deck", "my_deck_type", "opponent_deck",
                   "opponent_deck_type", "environment"} :
          record[col] # EMPTY_TEXT /\ record[col] # NEW_ENTRY_LABEL
    /\ record.finish_turn # NA

\* C23: when the button is pressed, save_data is called if and only if season, my_deck,
\* my_deck_type, opponent_deck, opponent_deck_type and environment are not empty and
\* not the new-entry label and finish_turn is present; otherwise an error is shown and
\* the worksheet is left as it was.
C23_ValidatedBeforeAppend ==
    [][ screen'.branch = "submitted"
          => /\ screen'.save_called <=> RecordComplete(screen'.record)
             /\ ~RecordComplete(screen'.record)
                   => /\ screen'.error_messages # {}
                      /\ ~screen'.saved
                      /\ worksheet' = worksheet ]_vars

\* a record complete but for its season was submitted and rejected
C23_Witness ==
    /\ screen.branch = "submitted"
    /\ screen.record.season = EMPTY_TEXT
    /\ screen.record.my_deck = sX /\ screen.record.my_deck_type = sT1
    /\ screen.record.opponent_deck = sY /\ screen.record.opponent_deck_type = sT2
    /\ screen.record.environment = sE1
    /\ screen.record.finish_turn = << DefaultFinishTurn >>
    /\ screen.error_messages = {"season"}
    /\ ~screen.save_called
    /\ worksheet.rows = << >>

\* C24: every record handed to save_data has a result that is WIN or LOSS and a
\* first_second that is FIRST or SECOND, whatever the session state of the form holds,
\* and so has the row a successful save appended.
C24_ResultAndSeatAreEnums ==
    (screen.branch = "submitted" /\ screen.save_called)
      => /\ screen.record.result \in {WIN, LOSS}
         /\ screen.record.first_second \in {FIRST, SECOND}
         /\ screen.saved
               => /\ worksheet.rows # << >>
                  /\ worksheet.rows[Len(worksheet.rows)].result \in {WIN, LOSS}
                  /\ worksheet.rows[Len(worksheet.rows)].first_second \in {FIRST, SECOND}

\* a record was saved while the keys of the two selectboxes were not set yet
C24_Witness ==
    /\ screen.branch = "submitted"
    /\ screen.saved
    /\ screen.form.inp_first_second = EMPTY_TEXT
    /\ screen.form.inp_result = EMPTY_TEXT
    /\ worksheet.rows[Len(worksheet.rows)].result = WIN
    /\ worksheet.rows[Len(worksheet.rows)].first_second = FIRST

\* C25: a call to save_data either appends exactly one row, the 11 canonical cells of
\* the record, and returns True, or returns False and leaves the stored sheet as it
\* was before the call.
C25_SaveAllOrNothing ==
    [][ (screen'.branch = "submitted" /\ screen'.save_called)
          => IF screen'.saved
             THEN /\ DOMAIN data_to_append(screen'.record) = Range(COLUMNS)
                  /\ worksheet'
                       = [worksheet EXCEPT
                            !.rows = Append(@, data_to_append(screen'.record))]
             ELSE worksheet' = worksheet ]_vars

\* the rows of a table that are mirror matches of the archetype, and the table without
\* its mirror-match rows
MirrorRows(T, A) == { i \in DOMAIN T : T[i].my_deck = A /\ T[i].opponent_deck = A }

WithoutMirrorRows(T) == SelectSeq(T, LAMBDA r : r.my_deck # r.opponent_deck)

\* C26: a mirror-match row of archetype A adds two appearances and exactly one win to
\* the overall statistics of A, and changes neither the average matchup win rate of A
\* in the summary nor the matchup table of A.
C26_MirrorMatchAsymmetry ==
    LET T == df_for_analysis
        others == WithoutMirrorRows(df_for_analysis)
    IN  /\ screen.branch = "general"
             => \A k \in DOMAIN screen.general :
                   LET A == screen.general[k].deck
                       mirrors == Cardinality(MirrorRows(T, A))
                   IN  /\ screen.general[k].appearances
                             = ExpectedAppearances(others, A, ALL_TYPES_PLACEHOLDER)
                                 + 2 * mirrors
                       /\ screen.general[k].wins
                             = ExpectedWins(others, A, ALL_TYPES_PLACEHOLDER) + mirrors
                       /\ screen.general[k].avg_matchup_wr = avg_matchup_wr_deck_a(others, A)
        /\ (screen.branch = "focus" /\ screen.message # "focus_no_records")
             => screen.focus.matchup
                   = focus_deck_analysis(others, session.focus_deck,
                                         session.focus_type).matchup

\* the sum of a count (games, wins) over the rows of a matchup table at `rows`
RECURSIVE SumOverRows(_, _, _)
SumOverRows(matchup, rows, field) ==
    IF rows = {} THEN 0
    ELSE LET k == CHOOSE m \in rows : TRUE
         IN  matchup[k][field] + SumOverRows(matchup, rows \ {k}, field)

\* C27: in the matchup table of every focus archetype, every opponent archetype has an
\* ALL TYPES row whose games and focus wins are the sums of the games and of the focus
\* wins over the other rows of that opponent, its type-specific rows, and every row of
\* the table has at least one game.
C27_AllTypesRowIsSum ==
    (screen.branch = "focus" /\ screen.message # "focus_no_records")
      => LET matchup == screen.focus.matchup
         IN  /\ \A k \in DOMAIN matchup : matchup[k].games >= 1
             /\ \A B \in MatchupOpponents :
                   \E all \in RowsOfOpponent(matchup, B) :
                      LET specific == RowsOfOpponent(matchup, B) \ {all}
                      IN  /\ matchup[all].type = ALL_TYPES_PLACEHOLDER
                          /\ specific # {}
                          /\ matchup[all].games = SumOverRows(matchup, specific, "games")
                          /\ matchup[all].wins = SumOverRows(matchup, specific, "wins")

\* the focus deck met two types of one opponent archetype, recorded from the
\* opponent's side, and won one of the two games
C27_Witness ==
    /\ screen.branch = "focus"
    /\ session.focus_deck = sY
    /\ session.focus_type = ALL_TYPES_PLACEHOLDER
    /\ Len(screen.focus.matchup) = 3
    /\ \A k \in 1..3 : screen.focus.matchup[k].opponent = sX
    /\ screen.focus.matchup[1].type = ALL_TYPES_PLACEHOLDER
    /\ screen.focus.matchup[1].games = 2 /\ screen.focus.matchup[1].wins = 1
    /\ screen.focus.matchup[2].type = sT1
    /\ screen.focus.matchup[2].games = 1 /\ screen.focus.matchup[2].wins = 1
    /\ screen.focus.matchup[3].type = sT2
    /\ screen.focus.matchup[3].games = 1 /\ screen.focus.matchup[3].wins = 0
    /\ \A i \in DOMAIN df_for_analysis : df_for_analysis[i].opponent_deck = sY

\* C28: after a successful save_data of a validated record and a load_data that reads
\* the worksheet, the table has one row more than the worksheet had data rows, the new
\* row is the last one, and each of its 11 fields is the field of the submitted record:
\* an empty memo is the empty (absent) value, the date and finish_turn are the same
\* date and integer.
C28_SaveLoadRoundTrip ==
    [][ (/\ screen'.branch = "submitted"
         /\ screen'.saved
         /\ df' = normalize_rows(sheet_cells(worksheet')))
          => /\ Len(df') = Len(worksheet.rows) + 1
             /\ \A col \in Range(COLUMNS) : df'[Len(df')][col] = screen'.record[col] ]_vars

====
